---- MODULE Spec2Model ----
(***************************************************************************)
(* A model of the pine-lang compiler and evaluator:                        *)
(*   - the type lattice of pine/src/syntax/convert.rs and the overload     *)
(*     sets the built-ins declare (libs/rsi.rs, libs/cos.rs, libs/hma.rs), *)
(*   - the row driver, series buffers and the steppers of libs/sum.rs,     *)
(*     libs/rsi.rs and libs/hma.rs,                                        *)
(*   - the indentation-driven block / if parser of pine/src/ast.           *)
(***************************************************************************)
EXTENDS Integers, Sequences, FiniteSets, TLC

VARIABLES
    \* --- type lattice harness -------------------------------------------
    ty1,        \* first type operand
    ty2,        \* second type operand
    call,       \* which function of convert.rs / which overload set was applied
    result,     \* what it returned
    \* --- evaluator ------------------------------------------------------
    row,        \* number of rows the driver has run
    length,     \* the literal length argument of the script's sum(close, length)
    close,      \* the input series "close"
    m,          \* the slot m of `m = sum(close, length)`
    reads,      \* the index_value calls of the steppers during the last row
    subctx,     \* ctxid -> sub-context of the script's if (its local series)
    ite,        \* the slot that receives the value of the if
    taken,      \* the branch the if selected on the last row
    computed,   \* the values the sum stepper returned, one per row
    status,     \* "ok", or "panic" once an unwrap has failed
    fed,        \* the rows of the input vector the driver has consumed
    \* --- parser ---------------------------------------------------------
    input,      \* the source text, a sequence of lines
    ast,        \* the result of the parse
    \* --- expression and identifier parsers ------------------------------
    text,       \* one line of source text, a sequence of characters
    out,        \* the parser applied to it and what it returned
    \* --- steppers ------------------------------------------------------
    steppers,   \* the stepper instances the factories and copies have made
    last        \* the last operation on them and what it returned

typeVars == <<ty1, ty2, call, result>>
runVars == <<row, length, close, m, reads, subctx, ite, taken, computed, status, fed>>
parseVars == <<input, ast>>
textVars == <<text, out>>
stepVars == <<steppers, last>>
vars == <<ty1, ty2, call, result, row, length, close, m, reads, subctx, ite, taken, computed, status,
          fed, input, ast, text, out, steppers, last>>

\* Option<T>
None == [tag |-> "None"]
Some(x) == [tag |-> "Some", val |-> x]

(***************************************************************************)
(* Types: SimpleSyntaxType and the Simple / Series forms of SyntaxType.    *)
(***************************************************************************)
SimpleSyntaxType == {"Na", "Bool", "Int", "Float", "Color", "String"}

Simple(k) == [form |-> "Simple", kind |-> k]
Series(k) == [form |-> "Series", kind |-> k]

SyntaxType == {Simple(k) : k \in SimpleSyntaxType} \cup {Series(k) : k \in SimpleSyntaxType}

\* implicity_convert with the Float -> Int arms added (Int and Float interchangeable)
implicity_convert_float_to_int(origin_type, dest_type) ==
    \/ origin_type = dest_type
    \/ /\ origin_type.kind = "Na"
       /\ (origin_type.form = "Simple" \/ dest_type.form = "Series")
    \/ /\ origin_type.kind \in {"Int", "Float"}
       /\ dest_type.kind \in {"Bool", "Int", "Float"}
       /\ (origin_type.form = "Simple" \/ dest_type.form = "Series")

\* implicity_convert without the Series(Na) arm
implicity_convert_no_series_na(origin_type, dest_type) ==
    IF origin_type = dest_type THEN TRUE
    ELSE CASE origin_type = Simple("Na") -> TRUE
           [] origin_type = Series("Int") ->
                dest_type \in {Series("Bool"), Series("Float"), Series("Int")}
           [] origin_type = Simple("Int") ->
                dest_type \in {Simple("Bool"), Simple("Int"), Simple("Float"),
                               Series("Bool"), Series("Float"), Series("Int")}
           [] origin_type = Series("Float") ->
                dest_type \in {Series("Bool"), Series("Float")}
           [] origin_type = Simple("Float") ->
                dest_type \in {Simple("Bool"), Simple("Float"),
                               Series("Bool"), Series("Float")}
           [] OTHER -> FALSE

\* implicity_convert whose Series(Float) arm forgets Series(Bool)
implicity_convert_series_float_only(origin_type, dest_type) ==
    IF origin_type = dest_type THEN TRUE
    ELSE CASE origin_type = Series("Na") -> dest_type.form = "Series"
           [] origin_type = Simple("Na") -> dest_type.form \in {"Simple", "Series"}
           [] origin_type = Series("Int") ->
                dest_type \in {Series("Bool"), Series("Float"), Series("Int")}
           [] origin_type = Simple("Int") ->
                dest_type \in {Simple("Bool"), Simple("Int"), Simple("Float"),
                               Series("Bool"), Series("Float"), Series("Int")}
           [] origin_type = Series("Float") -> dest_type \in {Series("Float")}
           [] origin_type = Simple("Float") ->
                dest_type \in {Simple("Bool"), Simple("Float"),
                               Series("Bool"), Series("Float")}
           [] OTHER -> FALSE

\* implicity_convert with a Simple(Bool) -> Simple(Int) arm added
implicity_convert_bool_to_int(origin_type, dest_type) ==
    IF origin_type = dest_type THEN TRUE
    ELSE CASE origin_type = Series("Na") -> dest_type.form = "Series"
           [] origin_type = Simple("Na") -> dest_type.form \in {"Simple", "Series"}
           [] origin_type = Series("Int") ->
                dest_type \in {Series("Bool"), Series("Float"), Series("Int")}
           [] origin_type = Simple("Int") ->
                dest_type \in {Simple("Bool"), Simple("Int"), Simple("Float"),
                               Series("Bool"), Series("Float"), Series("Int")}
           [] origin_type = Series("Float") ->
                dest_type \in {Series("Bool"), Series("Float")}
           [] origin_type = Simple("Float") ->
                dest_type \in {Simple("Bool"), Simple("Float"),
                               Series("Bool"), Series("Float")}
           [] origin_type = Simple("Bool") -> dest_type = Simple("Int")
           [] OTHER -> FALSE

\* implicity_convert whose Series(Na) arm accepts a Simple destination too
implicity_convert_series_na_to_simple(origin_type, dest_type) ==
    IF origin_type = dest_type THEN TRUE
    ELSE CASE origin_type = Series("Na") -> dest_type.form \in {"Simple", "Series"}
           [] origin_type = Simple("Na") -> dest_type.form \in {"Simple", "Series"}
           [] origin_type = Series("Int") ->
                dest_type \in {Series("Bool"), Series("Float"), Series("Int")}
           [] origin_type = Simple("Int") ->
                dest_type \in {Simple("Bool"), Simple("Int"), Simple("Float"),
                               Series("Bool"), Series("Float"), Series("Int")}
           [] origin_type = Series("Float") ->
                dest_type \in {Series("Bool"), Series("Float")}
           [] origin_type = Simple("Float") ->
                dest_type \in {Simple("Bool"), Simple("Float"),
                               Series("Bool"), Series("Float")}
           [] OTHER -> FALSE

implicity_convert(origin_type, dest_type) ==
    IF origin_type = dest_type THEN TRUE
    ELSE CASE origin_type = Series("Na") -> dest_type.form = "Series"
           [] origin_type = Simple("Na") -> dest_type.form \in {"Simple", "Series"}
           [] origin_type = Series("Int") ->
                dest_type \in {Series("Bool"), Series("Float"), Series("Int")}
           [] origin_type = Simple("Int") ->
                dest_type \in {Simple("Bool"), Simple("Int"), Simple("Float"),
                               Series("Bool"), Series("Float"), Series("Int")}
           [] origin_type = Series("Float") ->
                dest_type \in {Series("Bool"), Series("Float")}
           [] origin_type = Simple("Float") ->
                dest_type \in {Simple("Bool"), Simple("Float"),
                               Series("Bool"), Series("Float")}
           [] OTHER -> FALSE

common_simple_type(type1, type2) ==
    CASE <<type1, type2>> \in {<<"Bool", "Bool">>, <<"Bool", "Na">>, <<"Bool", "Float">>,
                               <<"Bool", "Int">>, <<"Na", "Bool">>, <<"Float", "Bool">>,
                               <<"Int", "Bool">>} -> Some("Bool")
      [] <<type1, type2>> \in {<<"Float", "Float">>, <<"Float", "Int">>, <<"Float", "Na">>,
                               <<"Int", "Float">>, <<"Na", "Float">>} -> Some("Float")
      [] <<type1, type2>> \in {<<"Int", "Int">>, <<"Int", "Na">>, <<"Na", "Int">>} -> Some("Int")
      [] <<type1, type2>> = <<"Na", "Na">> -> Some("Na")
      [] <<type1, type2>> \in {<<"Color", "Color">>, <<"Color", "Na">>, <<"Na", "Color">>} ->
            Some("Color")
      [] <<type1, type2>> \in {<<"String", "String">>, <<"String", "Na">>, <<"Na", "String">>} ->
            Some("String")
      [] OTHER -> None

common_type(type1, type2) ==
    LET simple_type == common_simple_type(type1.kind, type2.kind) IN
    IF type1.form = "Simple" /\ type2.form = "Simple"
    THEN IF simple_type = None THEN None ELSE Some(Simple(simple_type.val))
    ELSE IF simple_type = None THEN None ELSE Some(Series(simple_type.val))

\* similar_simple_type that unifies the mixed pair to Int
similar_simple_type_int(type1, type2) ==
    IF type1 = type2 THEN Some(type1)
    ELSE IF <<type1, type2>> \in {<<"Int", "Float">>, <<"Float", "Int">>}
         THEN Some("Int")
         ELSE None

similar_simple_type(type1, type2) ==
    IF type1 = type2 THEN Some(type1)
    ELSE IF <<type1, type2>> \in {<<"Int", "Float">>, <<"Float", "Int">>}
         THEN Some("Float")
         ELSE None

similar_type(type1, type2) ==
    LET simple_type == similar_simple_type(type1.kind, type2.kind) IN
    IF type1.form = "Simple" /\ type2.form = "Simple"
    THEN IF simple_type = None THEN None ELSE Some(Simple(simple_type.val))
    ELSE IF simple_type = None THEN None ELSE Some(Series(simple_type.val))

simple_to_series(origin_type) ==
    IF origin_type.form = "Simple" THEN Series(origin_type.kind) ELSE origin_type

(***************************************************************************)
(* Overload sets of the built-ins: FunctionTypes(vec![FunctionType ...]).  *)
(***************************************************************************)
FunctionType(params, ret) == [params |-> params, ret |-> ret]

\* the rsi overload set declared in the opposite order
rsi_func_type_swapped ==
    << FunctionType(<<Series("Float"), Series("Float")>>, Series("Float")),
       FunctionType(<<Series("Float"), Simple("Int")>>, Series("Float")) >>

rsi_func_type ==
    << FunctionType(<<Series("Float"), Simple("Int")>>, Series("Float")),
       FunctionType(<<Series("Float"), Series("Float")>>, Series("Float")) >>

cos_func_type ==
    << FunctionType(<<Simple("Float")>>, Simple("Float")),
       FunctionType(<<Series("Float")>>, Series("Float")) >>

hma_func_type ==
    << FunctionType(<<Series("Float"), Simple("Int")>>, Series("Float")) >>

\* A signature matches when the arities agree and every argument type
\* implicitly converts to the corresponding parameter type.
sig_match(sig, args) ==
    /\ Len(sig.params) = Len(args)
    /\ \A i \in 1..Len(args) : implicity_convert(args[i], sig.params[i])

\* Overload selection, in declaration order, first match wins; None is the
\* NoMatchingOverload type error.
select_overload(func_types, args) ==
    LET matching == {i \in 1..Len(func_types) : sig_match(func_types[i], args)} IN
    IF matching = {} THEN None
    ELSE LET i == CHOOSE j \in matching : \A l \in matching : j <= l
         IN Some([index |-> i - 1, sig |-> func_types[i]])

(***************************************************************************)
(* The lattice harness: operands drawn from SyntaxType, one action per     *)
(* function of convert.rs and per call site that is type-checked.          *)
(***************************************************************************)
TypeInit ==
    /\ ty1 \in SyntaxType
    /\ ty2 \in SyntaxType
    /\ call = "none"
    /\ result = None
    /\ row = 0
    /\ steppers = <<>>
    /\ last = None
    /\ length = 1
    /\ close = [current |-> None, history |-> <<>>]
    /\ m = [current |-> None, history |-> <<>>]
    /\ reads = {}
    /\ subctx = <<>>
    /\ ite = [current |-> None, history |-> <<>>]
    /\ taken = "none"
    /\ computed = <<>>
    /\ status = "ok"
    /\ fed = <<>>
    /\ input = <<>>
    /\ ast = None
    /\ text = <<>>
    /\ out = None

ApplyImplicityConvert ==
    /\ call = "none"
    /\ call' = "implicity_convert"
    /\ result' = Some(implicity_convert(ty1, ty2))
    /\ UNCHANGED <<ty1, ty2, runVars, parseVars, textVars, stepVars>>

ApplyCommonType ==
    /\ call = "none"
    /\ call' = "common_type"
    /\ result' = common_type(ty1, ty2)
    /\ UNCHANGED <<ty1, ty2, runVars, parseVars, textVars, stepVars>>

ApplySimilarType ==
    /\ call = "none"
    /\ call' = "similar_type"
    /\ result' = similar_type(ty1, ty2)
    /\ UNCHANGED <<ty1, ty2, runVars, parseVars, textVars, stepVars>>

ApplySimpleToSeries ==
    /\ call = "none"
    /\ call' = "simple_to_series"
    /\ result' = Some(simple_to_series(ty1))
    /\ UNCHANGED <<ty1, ty2, runVars, parseVars, textVars, stepVars>>

\* type-check of the call rsi(x, y) with x : ty1, y : ty2
CheckRsiCall ==
    /\ call = "none"
    /\ call' = "rsi"
    /\ result' = select_overload(rsi_func_type, <<ty1, ty2>>)
    /\ UNCHANGED <<ty1, ty2, runVars, parseVars, textVars, stepVars>>

\* type-check of the call cos(x) with x : ty1
CheckCosCall ==
    /\ call = "none"
    /\ call' = "cos"
    /\ result' = select_overload(cos_func_type, <<ty1>>)
    /\ UNCHANGED <<ty1, ty2, runVars, parseVars, textVars, stepVars>>

\* type-check of the call hma(source, length) with source : ty1, length : ty2
CheckHmaCall ==
    /\ call = "none"
    /\ call' = "hma"
    /\ result' = select_overload(hma_func_type, <<ty1, ty2>>)
    /\ UNCHANGED <<ty1, ty2, runVars, parseVars, textVars, stepVars>>

TypeNext ==
    \/ ApplyImplicityConvert
    \/ ApplyCommonType
    \/ ApplySimilarType
    \/ ApplySimpleToSeries
    \/ CheckRsiCall
    \/ CheckCosCall
    \/ CheckHmaCall

(***************************************************************************)
(* The evaluator: values, series buffers, the sum stepper, the if           *)
(* statement with its two sub-contexts, and the driver's row loop.          *)
(***************************************************************************)
MaxRows == 3
MaxVal == 2
MaxLength == 3

\* Float = Option<f64>: Na is None
Float == {None} \cup {Some(v) : v \in 1..MaxVal}

\* Arithmetic::add on Float: Na is absorbing
float_add(a, b) == IF a = None \/ b = None THEN None ELSE Some(a.val + b.val)

\* Result<T, RuntimeErr>
Ok(x) == [ok |-> TRUE, val |-> x]
Err == [ok |-> FALSE]

\* Series<T>: the value of the current row and the committed history
series_new == [current |-> None, history |-> <<>>]
series_update(s, v) == [s EXCEPT !.current = v]

\* commit that overwrites the newest entry instead of appending
series_commit_overwrite(s) ==
    IF s.history = <<>>
    THEN [current |-> None, history |-> <<s.current>>]
    ELSE [current |-> None, history |-> [s.history EXCEPT ![Len(s.history)] = s.current]]

series_commit(s) == [current |-> None, history |-> Append(s.history, s.current)]

\* index_value counting offsets from the oldest entry's side by one too many
index_value_off_by_one(s, i) ==
    IF i = 0 THEN Ok(s.current)
    ELSE IF i < Len(s.history) THEN Ok(s.history[Len(s.history) - i])
    ELSE Ok(None)

\* s[i] during a row: offset 0 is the current value, offset i the value
\* committed i rows ago, Na when the history is shorter than i
index_value(s, i) ==
    IF i = 0 THEN Ok(s.current)
    ELSE IF i <= Len(s.history) THEN Ok(s.history[Len(s.history) - i + 1])
    ELSE Ok(None)

\* the loop of sum_func from offset i on: [panic, val, reads]
RECURSIVE sum_loop(_, _, _, _)
sum_loop(source, len, i, sum_val) ==
    IF i >= len THEN [panic |-> FALSE, val |-> sum_val, reads |-> {}]
    ELSE LET r == index_value(source, i) IN
         IF ~r.ok THEN [panic |-> TRUE, val |-> None, reads |-> {[k |-> i, res |-> r]}]
         ELSE LET rest == sum_loop(source, len, i + 1, float_add(sum_val, r.val)) IN
              [rest EXCEPT !.reads = @ \cup {[k |-> i, res |-> r]}]

\* a variant whose window starts one row back
sum_func_from_previous(source, len) == sum_loop(source, len + 1, 1, Some(0))

sum_func(source, len) == sum_loop(source, len, 0, Some(0))

\* IfThenElse::new_no_ctxid
then_ctxid == 0
else_ctxid == 1

\* the sub-context of a branch, created on first entry; s is the series
\* local to the branch
get_subctx(ctxs, ctxid) ==
    IF ctxid \in DOMAIN ctxs THEN ctxs[ctxid] ELSE [s |-> series_new]

\* run of a branch block `x = e \n x` in its sub-context: the local series
\* takes the value of e, which is also the yield
run_branch(ctxs, ctxid, e) ==
    LET ctx == get_subctx(ctxs, ctxid)
        upd == [ctx EXCEPT !.s = series_update(@, e)]
    IN [ctxs |-> [c \in DOMAIN ctxs \cup {ctxid} |-> IF c = ctxid THEN upd ELSE ctxs[c]],
        yield |-> e]

\* an if that enters the sub-context of the selected branch only
IfThenElse_run_selected_only(ctxs, cond, then_e, else_e) ==
    IF cond
    THEN LET t == run_branch(ctxs, then_ctxid, then_e) IN [ctxs |-> t.ctxs, val |-> t.yield]
    ELSE LET e == run_branch(ctxs, else_ctxid, else_e) IN [ctxs |-> e.ctxs, val |-> e.yield]

\* the if: both sub-contexts are entered on every row, the value is the
\* selected branch's yield
IfThenElse_run(ctxs, cond, then_e, else_e) ==
    LET t == run_branch(ctxs, then_ctxid, then_e)
        e == run_branch(t.ctxs, else_ctxid, else_e)
    IN [ctxs |-> e.ctxs, val |-> IF cond THEN t.yield ELSE e.yield]

\* end of row: every series of every live sub-context is committed
commit_subctx(ctxs) == [c \in DOMAIN ctxs |-> [ctxs[c] EXCEPT !.s = series_commit(@)]]

(* The script the driver steps:
     m = sum(close, length)
     r = if cond
         a = close
         a
     else
         b = m
         b                                                                  *)
Init ==
    /\ row = 0
    /\ steppers = <<>>
    /\ last = None
    /\ length \in 1..MaxLength
    /\ close = series_new
    /\ m = series_new
    /\ reads = {}
    /\ subctx = <<>>
    /\ ite = series_new
    /\ taken = "none"
    /\ computed = <<>>
    /\ status = "ok"
    /\ fed = <<>>
    /\ ty1 = Simple("Na")
    /\ ty2 = Simple("Na")
    /\ call = "none"
    /\ result = None
    /\ input = <<>>
    /\ ast = None
    /\ text = <<>>
    /\ out = None

\* one row of the driver: the inputs are set, the block runs in source
\* order, every live series is committed
Row(v, cond) ==
    /\ status = "ok"
    /\ row < MaxRows
    /\ LET close1 == series_update(close, v)
           s == sum_func(close1, length)
           m1 == series_update(m, s.val)
           i == IfThenElse_run(subctx, cond, close1.current, m1.current)
           ite1 == series_update(ite, i.val)
       IN /\ reads' = s.reads
          /\ IF s.panic
             THEN /\ status' = "panic"
                  /\ UNCHANGED <<row, close, m, subctx, ite, taken, computed, fed>>
             ELSE /\ status' = "ok"
                  /\ row' = row + 1
                  /\ close' = series_commit(close1)
                  /\ m' = series_commit(m1)
                  /\ subctx' = commit_subctx(i.ctxs)
                  /\ ite' = series_commit(ite1)
                  /\ taken' = IF cond THEN "then" ELSE "else"
                  /\ computed' = Append(computed, s.val)
                  /\ fed' = Append(fed, v)
    /\ UNCHANGED <<length, typeVars, parseVars, textVars, stepVars>>

\* the values of close in sum_test
TestCloses == {Some(12), Some(6)}

Next == \E v \in Float \cup TestCloses, cond \in BOOLEAN : Row(v, cond)

TypeSpec == TypeInit /\ [][TypeNext]_vars

Spec == Init /\ [][Next]_vars

(***************************************************************************)
(* The steppers of libs/rsi.rs and libs/hma.rs: the state each keeps       *)
(* between rows, its step, and the factory and copy that make instances.   *)
(***************************************************************************)
MaxStepRows == 4
MaxSteppers == 2
MaxSteps == 5

RECURSIVE gcd(_, _)
gcd(a, b) == IF b = 0 THEN a ELSE gcd(b, a % b)

abs(x) == IF x < 0 THEN -x ELSE x
signum(x) == IF x > 0 THEN 1 ELSE IF x < 0 THEN -1 ELSE 0

\* an f64 as the exact fraction n/d, d >= 0, in lowest terms: 1/0 and -1/0
\* are the infinities and 0/0 is NaN (rounding and the sign of zero are
\* left out)
f64(n, d) ==
    IF d = 0 THEN [n |-> signum(n), d |-> 0]
    ELSE [n |-> n \div gcd(abs(n), d), d |-> d \div gcd(abs(n), d)]

num(k) == f64(k, 1)
NaN == f64(0, 0)
is_finite(a) == a.d > 0

f64_neg(a) == [n |-> -a.n, d |-> a.d]

f64_add(a, b) ==
    IF is_finite(a) /\ is_finite(b) THEN f64(a.n * b.d + b.n * a.d, a.d * b.d)
    ELSE IF is_finite(b) THEN a
    ELSE IF is_finite(a) THEN b
    ELSE IF a.n = b.n THEN a ELSE NaN

f64_mul(a, b) == f64(a.n * b.n, a.d * b.d)

f64_recip(a) ==
    IF a.n > 0 THEN f64(a.d, a.n)
    ELSE IF a.n < 0 THEN f64(-a.d, -a.n)
    ELSE f64(a.d, 0)

f64_div(a, b) == f64_mul(a, f64_recip(b))

\* a >= b on finite values
f64_ge(a, b) == a.n * b.d >= b.n * a.d

\* Arithmetic on Float = Option<f64>: Na is absorbing
arith_add(a, b) == IF a = None \/ b = None THEN None ELSE Some(f64_add(a.val, b.val))
arith_minus(a, b) ==
    IF a = None \/ b = None THEN None ELSE Some(f64_add(a.val, f64_neg(b.val)))
arith_mul(a, b) == IF a = None \/ b = None THEN None ELSE Some(f64_mul(a.val, b.val))
arith_div(a, b) == IF a = None \/ b = None THEN None ELSE Some(f64_div(a.val, b.val))

\* the larger of two values, Na when one of them is
float_max2(a, b) ==
    IF a = None \/ b = None THEN None
    ELSE IF f64_ge(a.val, b.val) THEN a ELSE b

\* the running average with weight 1/length on the new value; a missing
\* previous average counts as 0, a Na source gives Na.  `fault` stands for
\* the helper returning an error.
rma_func(source, len, prev_val, fault) ==
    IF fault THEN Err
    ELSE IF source = None THEN Ok(None)
    ELSE Ok(Some(f64_div(f64_add(source.val,
                                 f64_mul(num(len - 1),
                                         IF prev_val = None THEN num(0) ELSE prev_val.val)),
                         num(len))))

\* the two movements of a row
upward_of(s0, s1) == float_max2(arith_minus(s0, s1), Some(num(0)))
downward_of(s0, s1) == float_max2(arith_minus(s1, s0), Some(num(0)))

\* 100 - 100 / (rs + 1) of the two running averages; Ok((res, upward, downward))
calc_rsi(s0, len, s1, prev_upward, prev_downward, fault) ==
    LET upward == upward_of(s0, s1)
        downward == downward_of(s0, s1)
        rma1 == rma_func(upward, len, prev_upward, fault)
        rma2 == rma_func(downward, len, prev_downward, fault)
    IN IF ~rma1.ok \/ ~rma2.ok THEN Err
       ELSE LET rs == arith_div(rma1.val, rma2.val) IN
            Ok(<<arith_minus(Some(num(100)),
                             arith_div(Some(num(100)), arith_add(rs, Some(num(1))))),
                 upward, downward>>)

\* KcVal::new
KcVal_new == [prev_upward |-> None, prev_downward |-> None]

\* what a step hands back: the stepper after it and the Result
stepped(self, res) == [self |-> self, res |-> res]
returned_value(v) == [kind |-> "value", val |-> v]
returned_error == [kind |-> "error"]
panicked == [kind |-> "panic"]

\* a process_rsi whose series overload keeps its x as the upward movement
process_rsi_series_stores(self, int_length, x, y, fault) ==
    IF int_length
    THEN IF x = None \/ y = None THEN stepped(self, returned_error)
         ELSE LET s0 == index_value(x.val, 0).val
                  s1 == index_value(x.val, 1).val
                  r == calc_rsi(s0, y.val, s1, self.prev_upward, self.prev_downward, fault)
              IN IF ~r.ok THEN stepped(self, returned_error)
                 ELSE stepped([prev_upward |-> r.val[2], prev_downward |-> r.val[3]],
                              returned_value(r.val[1]))
    ELSE LET s1 == IF x = None THEN None ELSE x.val.current
             s2 == y
             rs == arith_div(s1, s2)
         IN stepped([self EXCEPT !.prev_upward = s1],
                    returned_value(arith_minus(Some(num(100)),
                                               arith_div(Some(num(100)),
                                                         arith_add(Some(num(1)), rs)))))

\* KcVal::process_rsi; int_length is whether the second parameter's type is
\* Simple(Int); x is the series parameter (None when it is missing), y the
\* length or the current value of the second series
process_rsi(self, int_length, x, y, fault) ==
    IF int_length
    THEN IF x = None \/ y = None THEN stepped(self, returned_error)
         ELSE LET s0 == index_value(x.val, 0).val
                  s1 == index_value(x.val, 1).val
                  r == calc_rsi(s0, y.val, s1, self.prev_upward, self.prev_downward, fault)
              IN IF ~r.ok THEN stepped(self, returned_error)
                 ELSE stepped([prev_upward |-> r.val[2], prev_downward |-> r.val[3]],
                              returned_value(r.val[1]))
    ELSE LET s1 == IF x = None THEN None ELSE x.val.current
             s2 == y
             rs == arith_div(s1, s2)
         IN stepped(self,
                    returned_value(arith_minus(Some(num(100)),
                                               arith_div(Some(num(100)),
                                                         arith_add(Some(num(1)), rs)))))

\* the loop of the weighted average of the series' newest len values, from
\* offset i on: Na as soon as one of them is
RECURSIVE wma_func_loop(_, _, _, _, _)
wma_func_loop(source, len, i, norm, sum) ==
    IF i >= len THEN Some(f64_div(sum, num(norm)))
    ELSE LET weight == (len - i) * len
             v == index_value(source, i).val
         IN IF v = None THEN None
            ELSE wma_func_loop(source, len, i + 1, norm + weight,
                               f64_add(sum, f64_mul(v.val, num(weight))))

wma_func(source, len, fault) ==
    IF fault THEN Err ELSE Ok(wma_func_loop(source, len, 0, 0, num(0)))

\* f64::round of length / 2 and of sqrt(length), length >= 1
round_half(len) == (len + 1) \div 2
round_sqrt(len) == CHOOSE k \in 1..len : (2 * k - 1) * (2 * k - 1) <= 4 * len
                                         /\ 4 * len < (2 * k + 1) * (2 * k + 1)

\* X = 2 * WMA(source, round(length / 2)) - WMA(source, length)
calc_x(source, len, fault) ==
    LET val1 == wma_func(source, round_half(len), fault)
        val2 == wma_func(source, len, fault)
    IN IF ~val1.ok \/ ~val2.ok THEN Err
       ELSE Ok(arith_minus(arith_mul(val1.val, Some(num(2))), val2.val))

\* the loop of wma_vec from index i on (source[i] is the (i+1)-th entry):
\* an index past the end panics
RECURSIVE wma_vec_loop(_, _, _, _, _)
wma_vec_loop(source, len, i, norm, sum) ==
    IF i >= len THEN returned_value(Some(f64_div(sum, num(norm))))
    ELSE IF i + 1 > Len(source) THEN panicked
    ELSE IF source[i + 1] = None THEN returned_value(None)
    ELSE wma_vec_loop(source, len, i + 1, norm + (len - i) * len,
                      f64_add(sum, f64_mul(source[i + 1].val, num((len - i) * len))))

\* a weighted average of the newest len entries of the vector
wma_vec_newest(source, len) ==
    IF Len(source) < len THEN wma_vec_loop(source, len, 0, 0, num(0))
    ELSE wma_vec_loop([i \in 1..len |-> source[Len(source) - i + 1]], len, 0, 0, num(0))

wma_vec(source, len) == wma_vec_loop(source, len, 0, 0, num(0))

calc_hullma(srcs, len) == wma_vec(srcs, round_sqrt(len))

\* HmaVal::new
HmaVal_new == [val_history |-> <<>>]

\* a step that pushes X only when the average over the history has a value
HmaVal_step_push_on_value(self, source, len, fault) ==
    IF source = None THEN stepped(self, returned_error)
    ELSE IF len = None \/ len.val < 1 THEN stepped(self, returned_error)
    ELSE LET val == calc_x(source.val, len.val, fault) IN
         IF ~val.ok THEN stepped(self, returned_error)
         ELSE LET pushed == [val_history |-> Append(self.val_history, val.val)]
                  hullma == calc_hullma(pushed.val_history, len.val)
              IN stepped(IF hullma.kind = "value" /\ hullma.val # None
                         THEN pushed ELSE self, hullma)

\* HmaVal::step: source is the series parameter, len the length parameter
\* (None when missing)
HmaVal_step(self, source, len, fault) ==
    IF source = None THEN stepped(self, returned_error)
    ELSE IF len = None \/ len.val < 1 THEN stepped(self, returned_error)
    ELSE LET val == calc_x(source.val, len.val, fault) IN
         IF ~val.ok THEN stepped(self, returned_error)
         ELSE LET pushed == [val_history |-> Append(self.val_history, val.val)] IN
              stepped(pushed, calc_hullma(pushed.val_history, len.val))

\* a stepper instance behind its Box: the library it belongs to, the state
\* it keeps (val), and a record of what it has done: the steps of an hma
\* that returned a value, the row of its last step, and the two running
\* averages its last int-length rsi step computed
new_stepper(lib) ==
    [lib |-> lib,
     val |-> IF lib = "hma" THEN HmaVal_new ELSE KcVal_new,
     returned |-> 0,
     at_row |-> 0,
     averages |-> <<None, None>>]

Libs == {"rsi", "hma"}

\* the instances: the Boxes handed out (box), what each points to (heap), how
\* each was made (made), and the number of steps taken so far
\* instance j of the boxes s
state_of(s, j) == s.heap[s.box[j]]

\* a copy that hands out the original's Box
copy_shares_box(s, i) ==
    [s EXCEPT !.box = Append(s.box, s.box[i]), !.made = Append(s.made, "copy")]

\* SeriesCall::copy = Box::new(self.clone()), as CallableEvaluate's copy
\* and clone call it
copy(s, i) ==
    [s EXCEPT !.box = Append(s.box, Len(s.heap) + 1),
              !.heap = Append(s.heap, state_of(s, i)),
              !.made = Append(s.made, "copy")]

\* the closure of declare_var's CallableFactory, CallableEvaluate::create
create(s, lib) ==
    [s EXCEPT !.box = Append(s.box, Len(s.heap) + 1),
              !.heap = Append(s.heap, new_stepper(lib)),
              !.made = Append(s.made, "factory")]

\* the values the driver feeds into close
StepCloses == {None, Some(num(6)), Some(num(12))}

\* a step's parameters: all given, the series missing, or given with the
\* helper the step calls (rma_func, wma_func) returning an error
StepArgs == {"given", "missing", "fault"}

\* the values of the second series of rsi(x, y)
SecondValues == {None, Some(num(0)), Some(num(6))}

(* The driver feeds close row by row; on each row every instance may be
   stepped once, with the script's length or a second series.             *)
StepInit ==
    /\ row = 0
    /\ steppers = [box |-> <<>>, heap |-> <<>>, made |-> <<>>, steps |-> 0]
    /\ last = None
    /\ length \in 0..MaxLength
    /\ close = series_new
    /\ m = series_new
    /\ reads = {}
    /\ subctx = <<>>
    /\ ite = series_new
    /\ taken = "none"
    /\ computed = <<>>
    /\ status = "ok"
    /\ fed = <<>>
    /\ ty1 = Simple("Na")
    /\ ty2 = Simple("Na")
    /\ call = "none"
    /\ result = None
    /\ input = <<>>
    /\ ast = None
    /\ text = <<>>
    /\ out = None

stepFrame == <<m, reads, subctx, ite, taken, computed, fed, typeVars, parseVars, textVars>>

\* the driver sets the row's value of close, after the commit of the row
\* before, on which every instance has taken its step
FeedRow(v) ==
    /\ status = "ok"
    /\ row < MaxStepRows
    /\ \A i \in DOMAIN steppers.box : state_of(steppers, i).at_row = row
    /\ row' = row + 1
    /\ close' = series_update(IF row = 0 THEN close ELSE series_commit(close), v)
    /\ last' = Some([op |-> "row"])
    /\ UNCHANGED <<steppers, length, status, stepFrame>>

\* the factory of the built-in under study is invoked
Create(lib) ==
    /\ status = "ok"
    /\ Len(steppers.box) < MaxSteppers
    /\ \A i \in DOMAIN steppers.box : state_of(steppers, i).lib = lib
    /\ steppers' = create(steppers, lib)
    /\ last' = Some([op |-> "create", inst |-> Len(steppers.box) + 1])
    /\ UNCHANGED <<row, close, length, status, stepFrame>>

\* an instance is copied
Copy(i) ==
    /\ status = "ok"
    /\ i \in DOMAIN steppers.box
    /\ Len(steppers.box) < MaxSteppers
    /\ steppers' = copy(steppers, i)
    /\ last' = Some([op |-> "copy", inst |-> Len(steppers.box) + 1, from |-> i])
    /\ UNCHANGED <<row, close, length, status, stepFrame>>

\* the instance's state after a step, with the record of what it has done
after_step(st, r, averages) ==
    [lib |-> st.lib,
     val |-> r.self,
     returned |-> st.returned + (IF st.lib = "hma" /\ r.res.kind = "value" THEN 1 ELSE 0),
     at_row |-> row,
     averages |-> averages]

\* instance i may take its step of this row
may_step(i, lib) ==
    /\ status = "ok"
    /\ row >= 1
    /\ i \in DOMAIN steppers.box
    /\ state_of(steppers, i).lib = lib
    /\ state_of(steppers, i).at_row < row
    /\ steppers.steps < MaxSteps

\* the step of rsi(close, length); `passed` is what it hands to rma_func as
\* the previous averages, `previous` the averages of the int-length step before
StepRsiInt(i, args) ==
    /\ may_step(i, "rsi")
    /\ LET st == state_of(steppers, i)
           x == IF args = "missing" THEN None ELSE Some(close)
           fault == args = "fault"
           r == process_rsi(st.val, TRUE, x, Some(length), fault)
           rma1 == rma_func(upward_of(close.current, index_value(close, 1).val),
                            length, st.val.prev_upward, fault)
           rma2 == rma_func(downward_of(close.current, index_value(close, 1).val),
                            length, st.val.prev_downward, fault)
       IN /\ steppers' = [steppers EXCEPT !.steps = @ + 1, !.heap[steppers.box[i]] =
                              after_step(st, r, IF r.res.kind = "value"
                                                THEN <<rma1.val, rma2.val>>
                                                ELSE st.averages)]
          /\ last' = Some([op |-> "step", inst |-> i, res |-> r.res,
                          overload |-> "int", args |-> args, y |-> Some(num(length)),
                          passed |-> <<st.val.prev_upward, st.val.prev_downward>>,
                          previous |-> st.averages])
    /\ UNCHANGED <<row, close, length, status, stepFrame>>

\* the step of rsi(close, y) with a second series whose value on this row is y
StepRsiSeries(i, y) ==
    /\ may_step(i, "rsi")
    /\ LET st == state_of(steppers, i)
           r == process_rsi(st.val, FALSE, Some(close), y, FALSE)
       IN /\ steppers' = [steppers EXCEPT !.steps = @ + 1, !.heap[steppers.box[i]] =
                              after_step(st, r, st.averages)]
          /\ last' = Some([op |-> "step", inst |-> i, res |-> r.res,
                          overload |-> "series", args |-> "given", y |-> y])
    /\ UNCHANGED <<row, close, length, status, stepFrame>>

\* the step of hma(close, length)
StepHma(i, args) ==
    /\ may_step(i, "hma")
    /\ LET st == state_of(steppers, i)
           r == HmaVal_step(st.val, IF args = "missing" THEN None ELSE Some(close),
                            Some(length), args = "fault")
       IN /\ steppers' = [steppers EXCEPT !.steps = @ + 1, !.heap[steppers.box[i]] =
                              after_step(st, r, st.averages)]
          /\ status' = IF r.res.kind = "panic" THEN "panic" ELSE "ok"
          /\ last' = Some([op |-> "step", inst |-> i, res |-> r.res,
                          overload |-> "hma", args |-> args, y |-> Some(num(length))])
    /\ UNCHANGED <<row, close, length, stepFrame>>

\* the factory is invoked for the script's one call
CreateFirst(lib) == steppers.box = <<>> /\ Create(lib)

\* one call site: its instance is made at any row and stepped with every
\* kind of parameters
StepNext ==
    \/ \E v \in StepCloses : FeedRow(v)
    \/ \E lib \in Libs : CreateFirst(lib)
    \/ \E args \in StepArgs : StepRsiInt(1, args)
    \/ \E y \in SecondValues : StepRsiSeries(1, y)
    \/ \E args \in StepArgs : StepHma(1, args)

StepSpec == StepInit /\ [][StepNext]_vars

\* several instances of one built-in, made by the factory and by copies at
\* any row, each stepped with its parameters given
InstanceNext ==
    \/ \E v \in StepCloses : FeedRow(v)
    \/ \E lib \in Libs : Create(lib)
    \/ \E i \in 1..MaxSteppers : Copy(i)
    \/ \E i \in 1..MaxSteppers : StepRsiInt(i, "given")
    \/ \E i \in 1..MaxSteppers : StepRsiSeries(i, Some(num(6)))
    \/ \E i \in 1..MaxSteppers : StepHma(i, "given")

InstanceSpec == StepInit /\ [][InstanceNext]_vars

(***************************************************************************)
(* The parser of pine/src/ast/stat_expr.rs, on a source text seen as a     *)
(* sequence of lines.  A line is its number of leading indent units and    *)
(* the kind of statement that follows them; a cursor is a line number, and *)
(* `skip` is the number of indent units already consumed on that line.     *)
(***************************************************************************)
MaxLines == 5
MaxIndent == 3

\* one indent unit is four spaces
IndentWidth == 4

Kinds == {"if", "else", "for", "exp", "break"}
Line == [ind : 0..MaxIndent, kind : Kinds]

POk(rest, val) == [ok |-> TRUE, rest |-> rest, val |-> val]
\* PineError::from_pine_kind(input, kind): the kind and the input it was
\* raised at
PErr(kind, pos) == [ok |-> FALSE, kind |-> kind, at |-> pos]

\* Position::new(line, character), lines counted from 0, and StrRange
Position(line, character) == [line |-> line, character |-> character]
StrRange(start, end) == [start |-> start, end |-> end]
\* where the statement of line `pos` starts, `offset` characters in
line_start(pos, offset) == Position(pos - 1, input[pos].ind * IndentWidth + offset)
\* StrRange::from_start(text, start) for a text of `width` characters
from_start(width, start) ==
    StrRange(start, Position(start.line, start.character + width))

Block(stmts, ret_stmt, range) ==
    [stmts |-> stmts, ret_stmt |-> ret_stmt, range |-> range]
IfThenElse(line, cond, then_blk, else_blk, range) ==
    [node |-> "Ite", line |-> line, cond |-> cond, then_blk |-> then_blk,
     else_blk |-> else_blk, range |-> range]
ForRange(line, var, start, end, do_blk, range) ==
    [node |-> "ForRange", line |-> line, var |-> var, start |-> start, end |-> end,
     do_blk |-> do_blk, range |-> range]
\* a one-letter name or a one-digit numeral, `offset` characters into the
\* statement of line `line`
VarName(line, offset) ==
    [node |-> "VarName", line |-> line, range |-> from_start(1, line_start(line, offset))]
Break(line) ==
    [node |-> "Break", line |-> line, range |-> from_start(5, line_start(line, 0))]

\* count(alt((tag("    "), tag("\t"))), indent): the line has at least
\* `indent` leading units, which are consumed
statement_indent(indent, pos) ==
    pos <= Len(input) /\ input[pos].ind >= indent

\* nom's tag: the keyword must be the very next thing at the cursor
tag(word, pos, skip) ==
    pos <= Len(input) /\ input[pos].ind = skip /\ input[pos].kind = word

\* eat_statement(gen_indent, p): the indent, then p, then the end of the line
eat_statement(indent, word, pos) ==
    statement_indent(indent, pos) /\ tag(word, pos, indent)

\* let (input, x) = parser(input): the result of a parser, computed once and
\* handed to what follows it
with_result(r, rest_of(_)) == CHOOSE y \in {rest_of(x) : x \in {r}} : TRUE

RECURSIVE block_with_indent(_, _)
RECURSIVE block_ret_with_indent(_, _)
RECURSIVE block_loop(_, _, _)
RECURSIVE statement_with_indent(_, _)
RECURSIVE transfer_block_ret(_)

block_parser(name, indent, pos) ==
    IF name = "block_ret_with_indent"
    THEN block_ret_with_indent(indent, pos)
    ELSE block_with_indent(indent, pos)

\* a variant whose range stops at the end of the then-block
if_node_range_to_then_blk(pos, then_blk, else_blk, end) ==
    IfThenElse(pos, VarName(pos, 3), then_blk, else_blk,
               StrRange(line_start(pos, 0), then_blk.range.end))

\* "if a": the tag at the cursor, the condition three characters on
if_node(pos, then_blk, else_blk, end) ==
    IfThenElse(pos, VarName(pos, 3), then_blk, else_blk,
               StrRange(line_start(pos, 0), end))

if_then_else_else_one_deeper(indent, parser, pos, skip) ==
    IF ~tag("if", pos, skip) THEN PErr("Nom", pos)
    ELSE with_result(block_parser(parser, indent + 1, pos + 1), LAMBDA then_block :
         IF ~then_block.ok THEN then_block
         ELSE IF ~(/\ statement_indent(indent + 1, then_block.rest)
                   /\ tag("else", then_block.rest, indent + 1))
         THEN POk(then_block.rest,
                  if_node(pos, then_block.val, None, then_block.val.range.end))
         ELSE with_result(block_parser(parser, indent + 1, then_block.rest + 1),
              LAMBDA else_block :
              IF else_block.ok
              THEN POk(else_block.rest,
                       if_node(pos, then_block.val, Some(else_block.val),
                               else_block.val.range.end))
              ELSE POk(then_block.rest,
                       if_node(pos, then_block.val, None, then_block.val.range.end))))

\* tuple((tag("if"), exp, statement_end, block_parser(indent + 1),
\*        opt(tuple((preceded(statement_indent(indent), tag("else")),
\*                   statement_end, block_parser(indent + 1))))))
if_then_else(indent, parser, pos, skip) ==
    IF ~tag("if", pos, skip) THEN PErr("Nom", pos)
    ELSE with_result(block_parser(parser, indent + 1, pos + 1), LAMBDA then_block :
         IF ~then_block.ok THEN then_block
         ELSE IF ~(/\ statement_indent(indent, then_block.rest)
                   /\ tag("else", then_block.rest, indent))
         THEN POk(then_block.rest,
                  if_node(pos, then_block.val, None, then_block.val.range.end))
         ELSE with_result(block_parser(parser, indent + 1, then_block.rest + 1),
              LAMBDA else_block :
              IF else_block.ok
              THEN POk(else_block.rest,
                       if_node(pos, then_block.val, Some(else_block.val),
                               else_block.val.range.end))
              ELSE POk(then_block.rest,
                       if_node(pos, then_block.val, None, then_block.val.range.end))))

if_then_else_exp(indent, pos, skip) ==
    if_then_else(indent, "block_ret_with_indent", pos, skip)

if_then_else_with_indent(indent, pos) ==
    IF statement_indent(indent, pos)
    THEN if_then_else(indent, "block_with_indent", pos, indent)
    ELSE PErr("Nom", pos)

\* "for i = 1 to 2": the variable, the start and the end sit 4, 8 and 13
\* characters after the tag; no `by` step
for_range(indent, parser, pos, skip) ==
    IF ~tag("for", pos, skip) THEN PErr("Nom", pos)
    ELSE with_result(block_parser(parser, indent + 1, pos + 1), LAMBDA do_blk :
         IF ~do_blk.ok THEN do_blk
         ELSE POk(do_blk.rest,
                  ForRange(pos, VarName(pos, 4), VarName(pos, 8), VarName(pos, 13),
                           do_blk.val,
                           StrRange(line_start(pos, 0), do_blk.val.range.end))))

for_range_exp(indent, pos, skip) ==
    for_range(indent, "block_ret_with_indent", pos, skip)

for_range_with_indent(indent, pos) ==
    IF statement_indent(indent, pos)
    THEN for_range(indent, "block_with_indent", pos, indent)
    ELSE PErr("Nom", pos)

\* the alternatives in the order of the alt(): break, if, for; a line of
\* any other kind is no statement
statement_with_indent(indent, pos) ==
    IF eat_statement(indent, "break", pos) THEN POk(pos + 1, Break(pos))
    ELSE with_result(if_then_else_with_indent(indent, pos), LAMBDA if_stat :
         IF if_stat.ok THEN if_stat
         ELSE with_result(for_range_with_indent(indent, pos), LAMBDA for_stat :
              IF for_stat.ok THEN for_stat ELSE PErr("Nom", pos)))

\* while cur_input.len() > 0 { if let Ok(..) = statement_with_indent .. }
block_loop(indent, cur_input, stmts) ==
    IF cur_input > Len(input) THEN [cur_input |-> cur_input, stmts |-> stmts]
    ELSE with_result(statement_with_indent(indent, cur_input), LAMBDA stas :
         IF stas.ok
         THEN block_loop(indent, stas.rest, Append(stmts, stas.val))
         ELSE [cur_input |-> cur_input, stmts |-> stmts])

\* a variant that returns a block without members where nothing parses
block_with_indent_allows_empty(indent, pos) ==
    with_result(block_loop(indent, pos, <<>>), LAMBDA loop :
       IF loop.cur_input <= Len(input) /\ eat_statement(indent, "exp", loop.cur_input)
       THEN LET ret_stmt == VarName(loop.cur_input, 0)
                range == IF loop.stmts = <<>> THEN ret_stmt.range
                         ELSE StrRange(loop.stmts[1].range.start, ret_stmt.range.end)
            IN POk(loop.cur_input + 1, Block(loop.stmts, Some(ret_stmt), range))
       ELSE IF loop.stmts = <<>>
            THEN POk(pos, Block(<<>>, None,
                                StrRange(Position(pos - 1, 0), Position(pos - 1, 0))))
            ELSE POk(loop.cur_input,
                     Block(loop.stmts, None,
                           StrRange(loop.stmts[1].range.start,
                                    loop.stmts[Len(loop.stmts)].range.end))))

block_with_indent(indent, pos) ==
    with_result(block_loop(indent, pos, <<>>), LAMBDA loop :
       IF loop.cur_input <= Len(input) /\ eat_statement(indent, "exp", loop.cur_input)
       THEN LET ret_stmt == VarName(loop.cur_input, 0)
                range == IF loop.stmts = <<>> THEN ret_stmt.range
                         ELSE StrRange(loop.stmts[1].range.start, ret_stmt.range.end)
            IN POk(loop.cur_input + 1, Block(loop.stmts, Some(ret_stmt), range))
       ELSE IF loop.stmts = <<>>
            THEN PErr("BlockNoStmts", pos)
            ELSE POk(loop.cur_input,
                     Block(loop.stmts, None,
                           StrRange(loop.stmts[1].range.start,
                                    loop.stmts[Len(loop.stmts)].range.end))))

transfer_block_ret_top_only(blk) ==
    IF blk.ret_stmt # None THEN blk
    ELSE IF blk.stmts = <<>> THEN blk
    ELSE LET s == blk.stmts[Len(blk.stmts)]
             init == SubSeq(blk.stmts, 1, Len(blk.stmts) - 1)
         IN IF s.node \in {"Ite", "ForRange"}
            THEN Block(init, Some(s), blk.range)
            ELSE blk

\* a variant that promotes the last if or for over a trailing expression
\* the block already has
transfer_block_ret_replaces_ret(blk) ==
    IF blk.stmts = <<>> THEN blk
    ELSE LET s == blk.stmts[Len(blk.stmts)]
             init == SubSeq(blk.stmts, 1, Len(blk.stmts) - 1)
         IN CASE s.node = "Ite" ->
                   Block(init, Some([s EXCEPT
                       !.then_blk = transfer_block_ret(s.then_blk),
                       !.else_blk = IF s.else_blk = None THEN None
                                    ELSE Some(transfer_block_ret(s.else_blk.val))]),
                         blk.range)
              [] s.node = "ForRange" ->
                   Block(init, Some([s EXCEPT
                       !.do_blk = transfer_block_ret(s.do_blk)]),
                         blk.range)
              [] OTHER -> blk

transfer_block_ret(blk) ==
    IF blk.ret_stmt # None THEN blk
    ELSE IF blk.stmts = <<>> THEN blk
    ELSE LET s == blk.stmts[Len(blk.stmts)]
             init == SubSeq(blk.stmts, 1, Len(blk.stmts) - 1)
         IN CASE s.node = "Ite" ->
                   Block(init, Some([s EXCEPT
                       !.then_blk = transfer_block_ret(s.then_blk),
                       !.else_blk = IF s.else_blk = None THEN None
                                    ELSE Some(transfer_block_ret(s.else_blk.val))]),
                         blk.range)
              [] s.node = "ForRange" ->
                   Block(init, Some([s EXCEPT
                       !.do_blk = transfer_block_ret(s.do_blk)]),
                         blk.range)
              [] OTHER -> blk

block_ret_with_indent(indent, pos) ==
    with_result(block_with_indent(indent, pos), LAMBDA r :
       IF r.ok THEN POk(r.rest, transfer_block_ret(r.val)) ELSE r)

block(pos) == block_with_indent(0, pos)

\* the sources handed to the parser: up to MaxLines lines, the first one
\* unindented, no line more than one unit deeper than the line before it
Indents(n) ==
    {s \in [1..n -> 0..MaxIndent] :
        s[1] = 0 /\ \A i \in 1..(n - 1) : s[i + 1] <= s[i] + 1}

Source(s, k) == [i \in DOMAIN s |-> [ind |-> s[i], kind |-> k[i]]]

ParseInit ==
    /\ \E n \in 1..MaxLines : \E s \in Indents(n), k \in [1..n -> Kinds] :
           input = Source(s, k)
    /\ ast = None
    /\ text = <<>>
    /\ out = None
    /\ ty1 = Simple("Na")
    /\ ty2 = Simple("Na")
    /\ call = "none"
    /\ result = None
    /\ row = 0
    /\ steppers = <<>>
    /\ last = None
    /\ length = 1
    /\ close = [current |-> None, history |-> <<>>]
    /\ m = [current |-> None, history |-> <<>>]
    /\ reads = {}
    /\ subctx = <<>>
    /\ ite = [current |-> None, history |-> <<>>]
    /\ taken = "none"
    /\ computed = <<>>
    /\ status = "ok"
    /\ fed = <<>>

\* pub fn block: the whole text as a block at depth 0
ParseBlock ==
    /\ ast = None
    /\ ast' = Some([entry |-> "block", res |-> block(1)])
    /\ UNCHANGED <<input, typeVars, runVars, textVars, stepVars>>

\* if_then_else_exp(0) on the whole text, as the parser's tests call it
ParseIfThenElseExp ==
    /\ ast = None
    /\ ast' = Some([entry |-> "if_then_else_exp", res |-> if_then_else_exp(0, 1, 0)])
    /\ UNCHANGED <<input, typeVars, runVars, textVars, stepVars>>

\* for_range_exp(0) on the whole text, as the parser's tests call it
ParseForRangeExp ==
    /\ ast = None
    /\ ast' = Some([entry |-> "for_range_exp", res |-> for_range_exp(0, 1, 0)])
    /\ UNCHANGED <<input, typeVars, runVars, textVars, stepVars>>

ParseNext ==
    \/ ParseBlock
    \/ ParseIfThenElseExp
    \/ ParseForRangeExp

ParseSpec == ParseInit /\ [][ParseNext]_vars

(***************************************************************************)
(* The identifier parser of src/name.rs, on one line of text seen as a     *)
(* sequence of characters; a cursor is the index of the next character.    *)
(* "e_acute" and "euro" stand for a two-byte letter and a three-byte       *)
(* symbol.                                                                 *)
(***************************************************************************)
Lower == {"a", "b", "c", "d", "e", "f", "g", "h", "i", "j", "k", "l", "m", "n", "o", "p",
          "q", "r", "s", "t", "u", "v", "w", "x", "y", "z"}
Digit == {"0", "1", "2", "3", "4", "5", "6", "7", "8", "9"}

\* char::is_alphabetic, char::is_alphanumeric and char::len_utf8
is_alphabetic(c) == c \in Lower \cup {"e_acute"}
is_alphanumeric(c) == is_alphabetic(c) \/ c \in Digit
len_utf8(c) == CASE c = "e_acute" -> 2 [] c = "euro" -> 3 [] OTHER -> 1

\* a failed slice or unwrap: the thread panics, no value is returned
Panic(pos) == [ok |-> FALSE, kind |-> "Panic", at |-> pos]
is_panic(r) == ~r.ok /\ r.kind = "Panic"

\* the text s has the word at index i
starts_with(s, i, word) ==
    i + Len(word) - 1 <= Len(s) /\ SubSeq(s, i, i + Len(word) - 1) = word

\* the tags of reserved's alt, in its order
reserved_words ==
    <<<<"a", "n", "d">>,
      <<"o", "r">>,
      <<"n", "o", "t">>,
      <<"b", "r", "e", "a", "k">>,
      <<"c", "o", "n", "t", "i", "n", "u", "e">>,
      <<"e", "l", "s", "e">>,
      <<"i", "f">>,
      <<"t", "r", "u", "e">>,
      <<"f", "a", "l", "s", "e">>,
      <<"f", "o", "r">>,
      <<"w", "h", "i", "l", "e">>,
      <<"r", "e", "t", "u", "r", "n">>,
      <<"n", "a">>>>

\* alt((tag("and"), ...))(input): the first tag the name starts with
reserved(name) ==
    LET hits == {k \in DOMAIN reserved_words : starts_with(name, 1, reserved_words[k])} IN
    IF hits = {} THEN PErr("Tag", 1)
    ELSE LET k == CHOOSE h \in hits : \A g \in hits : h <= g
         IN POk(Len(reserved_words[k]) + 1, reserved_words[k])

\* &input[1..] is taken on both arms: it panics on the empty text and when
\* byte 1 is inside the first character
alpha_or_underscore(pos) ==
    IF pos > Len(text) THEN Panic(pos)
    ELSE IF len_utf8(text[pos]) > 1 THEN Panic(pos)
    ELSE IF is_alphabetic(text[pos]) \/ text[pos] = "_"
         THEN POk(pos + 1, <<text[pos]>>)
         ELSE PErr("InvalidIdentifier", pos + 1)

is_alphanum_or_underscore(c) == is_alphanumeric(c) \/ c = "_"

RECURSIVE take_while(_)
\* take_while(is_alphanum_or_underscore): the cursor after the run
take_while(pos) ==
    IF pos <= Len(text) /\ is_alphanum_or_underscore(text[pos])
    THEN take_while(pos + 1) ELSE pos

RECURSIVE skip_ws(_)
skip_ws(pos) ==
    IF pos <= Len(text) /\ text[pos] = " " THEN skip_ws(pos + 1) ELSE pos

\* a name and where it stands in the line
VarNameAt(name, from, to) ==
    [node |-> "VarName", name |-> name,
     range |-> StrRange(Position(0, from - 1), Position(0, to - 1))]

varname(pos) ==
    LET start == skip_ws(pos) IN
    with_result(alpha_or_underscore(start), LAMBDA first :
       IF ~first.ok THEN first
       ELSE LET end == take_while(first.rest)
                name == SubSeq(text, start, end - 1)
                res == reserved(name)
            IN IF res.ok /\ res.rest > Len(name)
               THEN PErr("ReservedVarName", end)
               ELSE POk(end, VarNameAt(name, start, end)))

\* the reserved identifiers of the language
ReservedIdentifiers ==
    {<<"a", "n", "d">>,
     <<"o", "r">>,
     <<"n", "o", "t">>,
     <<"b", "r", "e", "a", "k">>,
     <<"c", "o", "n", "t", "i", "n", "u", "e">>,
     <<"e", "l", "s", "e">>,
     <<"i", "f">>,
     <<"t", "r", "u", "e">>,
     <<"f", "a", "l", "s", "e">>,
     <<"f", "o", "r">>,
     <<"w", "h", "i", "l", "e">>,
     <<"r", "e", "t", "u", "r", "n">>,
     <<"n", "a">>,
     <<"v", "a", "r">>}

\* identifiers, some of them starting with a reserved word or a type keyword
PlainIdentifiers ==
    {<<"x">>,
     <<"a">>,
     <<"c", "l", "o", "s", "e">>,
     <<"h", "e", "l", "l", "o", "_", "w", "o", "r", "l", "d">>,
     <<"h", "e", "d", "_", "1", "2", "s">>,
     <<"_", "a">>,
     <<"v", "a", "r", "i", "a", "b", "l", "e">>,
     <<"i", "n", "t", "e", "r", "v", "a", "l">>,
     <<"b", "o", "o", "l", "e", "a", "n">>,
     <<"n", "a", "m", "e">>,
     <<"n", "a", "v">>,
     <<"t", "r", "u", "e", "n", "e", "s", "s">>,
     <<"f", "a", "l", "s", "e", "y">>,
     <<"f", "o", "r", "m", "a", "t">>,
     <<"n", "o", "t", "h", "i", "n", "g">>,
     <<"i", "f", "f", "y">>,
     <<"f", "l", "o", "a", "t", "y">>,
     <<"c", "o", "l", "o", "r", "s">>,
     <<"s", "t", "r", "i", "n", "g", "s">>,
     <<"a", "n", "d", "r", "o", "i", "d">>,
     <<"o", "r", "d", "e", "r">>,
     <<"b", "r", "e", "a", "k", "s">>,
     <<"e", "l", "s", "e", "w", "h", "e", "r", "e">>,
     <<"n", "o", "t", "n", "a">>}

\* texts no identifier starts: empty, blank, a digit, a symbol, a
\* multi-byte letter, a multi-byte symbol
MalformedTexts ==
    {<<>>, <<" ">>, <<"2", "a">>, <<"$", "a">>, <<"e_acute", "a">>, <<"euro">>,
     <<"a", "e_acute">>, <<"a", " ">>, <<"a", "$">>}

(***************************************************************************)
(* The expression parser of pine/src/ast/stat_expr.rs on the same text.    *)
(* Of the operators of op.rs the unary `-` and the binary `+` are here;    *)
(* string and colour literals start with a quote or `#`, which no text     *)
(* handed to the parser contains.                                          *)
(***************************************************************************)
text_range(from, to) == StrRange(Position(0, from - 1), Position(0, to - 1))

\* an error the caller may recover from (Err::Error), as opposed to a panic
failed(r) == ~r.ok /\ ~is_panic(r)

\* p(input)?: what follows runs on success, a failure is returned
and_then(r, rest_of(_)) ==
    with_result(r, LAMBDA x : IF x.ok THEN rest_of(x) ELSE x)

\* alt((p, q)): q is tried when p fails
or_else(r, alternative(_)) ==
    with_result(r, LAMBDA x : IF failed(x) THEN alternative(x) ELSE x)

\* tag(word)
tag_text(word, pos) ==
    IF starts_with(text, pos, word)
    THEN POk(pos + Len(word), text_range(pos, pos + Len(word)))
    ELSE PErr("Tag", pos)

\* eat_sep(tag(word)): the word after any blanks
tag_ws(word, pos) == tag_text(word, skip_ws(pos))

varname_ws(pos) == varname(skip_ws(pos))

NaNode(range) == [node |-> "Na", range |-> range]
BoolNode(value, range) == [node |-> "Bool", value |-> value, range |-> range]
NumNode(range) == [node |-> "Num", range |-> range]
TupleNode(items, range) == [node |-> "Tuple", items |-> items, range |-> range]
TypeCast(data_type, e, range) ==
    [node |-> "TypeCast", data_type |-> data_type, exp |-> e, range |-> range]
PrefixExp(var_chain, range) ==
    [node |-> "PrefixExp", var_chain |-> var_chain, range |-> range]
FunctionCall(method, pos_args, dict_args, range) ==
    [node |-> "FuncCall", method |-> method, pos_args |-> pos_args,
     dict_args |-> dict_args, range |-> range]
RefCall(name, arg, range) ==
    [node |-> "RefCall", name |-> name, arg |-> arg, range |-> range]
Condition(cond, exp1, exp2, range) ==
    [node |-> "Condition", cond |-> cond, exp1 |-> exp1, exp2 |-> exp2, range |-> range]
UnOpExp2(ops, e, range) == [node |-> "UnOp", ops |-> ops, exp |-> e, range |-> range]
BinaryExp(op, exp1, exp2, range) ==
    [node |-> "BinOp", op |-> op, exp1 |-> exp1, exp2 |-> exp2, range |-> range]

RECURSIVE exp(_)
RECURSIVE exp2(_)
RECURSIVE flatexp(_)
RECURSIVE take_digits(_)
RECURSIVE exp_list_more(_, _)
RECURSIVE name_list_more(_, _)

take_digits(pos) ==
    IF pos <= Len(text) /\ text[pos] \in Digit THEN take_digits(pos + 1) ELSE pos

\* an integer literal after any blanks
num_lit_ws(pos) ==
    LET start == skip_ws(pos)
        end == take_digits(start)
    IN IF end > start THEN POk(end, NumNode(text_range(start, end)))
       ELSE PErr("Num", start)

bracket_expr(pos) ==
    and_then(tag_ws(<<"(">>, pos), LAMBDA l :
    and_then(exp(l.rest), LAMBDA e :
    and_then(tag_ws(<<")">>, e.rest), LAMBDA r :
    POk(r.rest, e.val))))

\* separated_list(eat_sep(tag(",")), exp)
exp_list_more(pos, items) ==
    with_result(tag_ws(<<",">>, pos), LAMBDA sep :
       IF ~sep.ok THEN POk(pos, items)
       ELSE with_result(exp(sep.rest), LAMBDA e :
            IF is_panic(e) THEN e
            ELSE IF ~e.ok THEN POk(pos, items)
            ELSE exp_list_more(e.rest, Append(items, e.val))))

exp_list(pos) ==
    with_result(exp(pos), LAMBDA e :
       IF is_panic(e) THEN e
       ELSE IF ~e.ok THEN POk(pos, <<>>)
       ELSE exp_list_more(e.rest, <<e.val>>))

tupledef(pos) ==
    and_then(tag_ws(<<"[">>, pos), LAMBDA paren_l :
    and_then(exp_list(paren_l.rest), LAMBDA items :
    and_then(tag_ws(<<"]">>, items.rest), LAMBDA paren_r :
    POk(paren_r.rest,
        TupleNode(items.val, StrRange(paren_l.val.start, paren_r.val.end))))))

\* alt((tag("float"), tag("int"), tag("bool"), tag("color"), tag("string")))
datatype(pos) ==
    or_else(tag_text(<<"f", "l", "o", "a", "t">>, pos), LAMBDA e1 :
    or_else(tag_text(<<"i", "n", "t">>, pos), LAMBDA e2 :
    or_else(tag_text(<<"b", "o", "o", "l">>, pos), LAMBDA e3 :
    or_else(tag_text(<<"c", "o", "l", "o", "r">>, pos), LAMBDA e4 :
    tag_text(<<"s", "t", "r", "i", "n", "g">>, pos)))))

type_cast(pos) ==
    and_then(datatype(skip_ws(pos)), LAMBDA data_type :
    and_then(tag_ws(<<"(">>, data_type.rest), LAMBDA l :
    and_then(exp(l.rest), LAMBDA e :
    and_then(tag_ws(<<")">>, e.rest), LAMBDA end_tag :
    POk(end_tag.rest,
        TypeCast(SubSeq(text, skip_ws(pos), data_type.rest - 1), e.val,
                 StrRange(data_type.val.start, end_tag.val.end)))))))

\* separated_list(tag("."), varname)
name_list_more(pos, names) ==
    with_result(tag_text(<<".">>, pos), LAMBDA sep :
       IF ~sep.ok THEN POk(pos, names)
       ELSE with_result(varname(sep.rest), LAMBDA n :
            IF is_panic(n) THEN n
            ELSE IF ~n.ok THEN POk(pos, names)
            ELSE name_list_more(n.rest, Append(names, n.val))))

name_list(pos) ==
    with_result(varname(pos), LAMBDA n :
       IF is_panic(n) THEN n
       ELSE IF ~n.ok THEN POk(pos, <<>>)
       ELSE name_list_more(n.rest, <<n.val>>))

prefix_exp(pos) ==
    and_then(varname(pos), LAMBDA prefix :
    and_then(tag_text(<<".">>, prefix.rest), LAMBDA dot :
    and_then(name_list(dot.rest), LAMBDA names :
    IF names.val = <<>>
    THEN PErr("PrefixNoNamesAfterDot", names.rest)
    ELSE POk(names.rest,
             PrefixExp(<<prefix.val>> \o names.val,
                       StrRange(prefix.val.range.start,
                                names.val[Len(names.val)].range.end))))))

prefix_exp_ws(pos) == prefix_exp(skip_ws(pos))

RECURSIVE func_call_args_loop(_, _, _, _, _)
RECURSIVE unary_ops(_, _)
RECURSIVE binop_chain(_, _)
RECURSIVE fold_binops(_, _, _)

\* `name = exp` when that parses, a positional exp otherwise
func_call_arg(pos) ==
    with_result(and_then(varname_ws(pos), LAMBDA n :
                and_then(tag_ws(<<"=">>, n.rest), LAMBDA eq :
                and_then(exp(eq.rest), LAMBDA e :
                POk(e.rest, [name |-> Some(n.val), arg |-> e.val])))),
       LAMBDA named :
       IF ~failed(named) THEN named
       ELSE and_then(exp(pos), LAMBDA e : POk(e.rest, [name |-> None, arg |-> e.val])))

\* while let Ok(..) = preceded(eat_sep(tag(",")), func_call_arg)(cur_input)
func_call_args_loop(cur_input, after_first, is_dict_args, pos_args, dict_args) ==
    with_result(and_then(tag_ws(<<",">>, cur_input), LAMBDA sep : func_call_arg(sep.rest)),
       LAMBDA arg :
       IF is_panic(arg) THEN arg
       ELSE IF ~arg.ok
       THEN POk(cur_input, [pos_args |-> pos_args, dict_args |-> dict_args])
       ELSE IF arg.val.name # None
       THEN func_call_args_loop(arg.rest, after_first, TRUE, pos_args,
                                Append(dict_args, <<arg.val.name.val, arg.val.arg>>))
       ELSE IF is_dict_args
       THEN PErr("InvalidFuncCallArgs", after_first)
       ELSE func_call_args_loop(arg.rest, after_first, is_dict_args,
                                Append(pos_args, arg.val.arg), dict_args))

\* func_call_args taking a leading named argument for a positional one
func_call_args_first_not_dict(pos) ==
    with_result(func_call_arg(pos), LAMBDA arg1 :
       IF is_panic(arg1) THEN arg1
       ELSE IF ~arg1.ok THEN POk(pos, [pos_args |-> <<>>, dict_args |-> <<>>])
       ELSE IF arg1.val.name # None
       THEN func_call_args_loop(arg1.rest, arg1.rest, FALSE, <<>>,
                                <<<<arg1.val.name.val, arg1.val.arg>>>>)
       ELSE func_call_args_loop(arg1.rest, arg1.rest, FALSE, <<arg1.val.arg>>, <<>>))

func_call_args(pos) ==
    with_result(func_call_arg(pos), LAMBDA arg1 :
       IF is_panic(arg1) THEN arg1
       ELSE IF ~arg1.ok THEN POk(pos, [pos_args |-> <<>>, dict_args |-> <<>>])
       ELSE IF arg1.val.name # None
       THEN func_call_args_loop(arg1.rest, arg1.rest, TRUE, <<>>,
                                <<<<arg1.val.name.val, arg1.val.arg>>>>)
       ELSE func_call_args_loop(arg1.rest, arg1.rest, FALSE, <<arg1.val.arg>>, <<>>))

func_call(pos) ==
    and_then(varname_ws(pos), LAMBDA method :
    and_then(tag_ws(<<"(">>, method.rest), LAMBDA l :
    and_then(func_call_args(l.rest), LAMBDA args :
    and_then(tag_ws(<<")">>, args.rest), LAMBDA r :
    POk(r.rest,
        FunctionCall(method.val, args.val.pos_args, args.val.dict_args,
                     StrRange(method.val.range.start, r.val.end)))))))

func_call_ws(pos) == func_call(skip_ws(pos))

callable_expr(pos) ==
    or_else(and_then(tag_text(<<"(">>, pos), LAMBDA l :
            and_then(exp(l.rest), LAMBDA e :
            and_then(tag_ws(<<")">>, e.rest), LAMBDA r : POk(r.rest, e.val)))),
       LAMBDA e1 :
    or_else(prefix_exp(pos), LAMBDA e2 :
    varname(pos)))

ref_call(pos) ==
    and_then(callable_expr(skip_ws(pos)), LAMBDA name :
    and_then(tag_ws(<<"[">>, name.rest), LAMBDA l :
    and_then(exp(l.rest), LAMBDA arg :
    and_then(tag_ws(<<"]">>, arg.rest), LAMBDA paren_r :
    POk(paren_r.rest,
        RefCall(name.val, arg.val,
                StrRange(name.val.range.start, paren_r.val.end)))))))

\* the alternatives in the order of the alt()
exp2(pos) ==
    or_else(and_then(tag_ws(<<"n", "a">>, pos), LAMBDA s : POk(s.rest, NaNode(s.val))),
       LAMBDA e1 :
    or_else(and_then(tag_ws(<<"t", "r", "u", "e">>, pos),
                     LAMBDA s : POk(s.rest, BoolNode(TRUE, s.val))),
       LAMBDA e2 :
    or_else(and_then(tag_ws(<<"f", "a", "l", "s", "e">>, pos),
                     LAMBDA s : POk(s.rest, BoolNode(FALSE, s.val))),
       LAMBDA e3 :
    or_else(num_lit_ws(pos), LAMBDA e4 :
    or_else(bracket_expr(pos), LAMBDA e5 :
    or_else(tupledef(pos), LAMBDA e6 :
    or_else(type_cast(pos), LAMBDA e7 :
    or_else(prefix_exp_ws(pos), LAMBDA e8 :
    or_else(func_call_ws(pos), LAMBDA e9 :
    or_else(ref_call(pos), LAMBDA e10 :
    varname_ws(pos)))))))))))

\* many0(unary_op)
unary_ops(pos, ops) ==
    with_result(tag_ws(<<"-">>, pos), LAMBDA op :
       IF ~op.ok THEN [rest |-> pos, ops |-> ops]
       ELSE unary_ops(op.rest, Append(ops, [op |-> "-", range |-> op.val])))

unopexp2(pos) ==
    LET many == unary_ops(pos, <<>>) IN
    and_then(exp2(many.rest), LAMBDA e :
    POk(e.rest,
        UnOpExp2(many.ops, e.val,
                 IF many.ops = <<>> THEN e.val.range
                 ELSE StrRange(many.ops[1].range.start, e.val.range.end))))

\* many0(tuple((binary_op, unopexp2)))
binop_chain(pos, chain) ==
    with_result(and_then(tag_ws(<<"+">>, pos), LAMBDA op : unopexp2(op.rest)),
       LAMBDA operand :
       IF is_panic(operand) THEN operand
       ELSE IF ~operand.ok THEN POk(pos, chain)
       ELSE binop_chain(operand.rest, Append(chain, operand.val)))

\* an operand without operators is the operand itself
unop_to_exp(u) == IF u.ops = <<>> THEN u.exp ELSE u

fold_binops(left, chain, k) ==
    IF k > Len(chain) THEN left
    ELSE fold_binops(BinaryExp("+", left, unop_to_exp(chain[k]),
                               StrRange(left.range.start, chain[k].range.end)),
                     chain, k + 1)

flatexp_from_components(head, chain) == fold_binops(unop_to_exp(head), chain, 1)

flatexp(pos) ==
    and_then(unopexp2(pos), LAMBDA head :
    and_then(binop_chain(head.rest, <<>>), LAMBDA chain :
    POk(chain.rest, flatexp_from_components(head.val, chain.val))))

\* a variant whose else-arm is an operator expression only
condition_else_flat(pos) ==
    and_then(flatexp(pos), LAMBDA cond :
    and_then(tag_ws(<<"?">>, cond.rest), LAMBDA q :
    and_then(exp(q.rest), LAMBDA exp1 :
    and_then(tag_ws(<<":">>, exp1.rest), LAMBDA c :
    and_then(flatexp(c.rest), LAMBDA e2 :
    POk(e2.rest,
        Condition(cond.val, exp1.val, e2.val,
                  StrRange(cond.val.range.start, e2.val.range.end))))))))

condition(pos) ==
    and_then(flatexp(pos), LAMBDA cond :
    and_then(tag_ws(<<"?">>, cond.rest), LAMBDA q :
    and_then(exp(q.rest), LAMBDA exp1 :
    and_then(tag_ws(<<":">>, exp1.rest), LAMBDA c :
    and_then(exp(c.rest), LAMBDA e2 :
    POk(e2.rest,
        Condition(cond.val, exp1.val, e2.val,
                  StrRange(cond.val.range.start, e2.val.range.end))))))))

exp(pos) == or_else(condition(pos), LAMBDA e1 : flatexp(pos))

LVTupleNode(names, range) == [names |-> names, range |-> range]
Assignment(names, val, var, var_type, range) ==
    [node |-> "Assignment", names |-> names, val |-> val, var |-> var,
     var_type |-> var_type, range |-> range]

RECURSIVE lv_names_more(_, _)

\* separated_list(eat_sep(tag(",")), varname_ws)
lv_names_more(pos, names) ==
    with_result(and_then(tag_ws(<<",">>, pos), LAMBDA sep : varname_ws(sep.rest)),
       LAMBDA n :
       IF is_panic(n) THEN n
       ELSE IF ~n.ok THEN POk(pos, names)
       ELSE lv_names_more(n.rest, Append(names, n.val)))

lv_names(pos) ==
    with_result(varname_ws(pos), LAMBDA n :
       IF is_panic(n) THEN n
       ELSE IF ~n.ok THEN POk(pos, <<>>)
       ELSE lv_names_more(n.rest, <<n.val>>))

rettupledef(pos) ==
    and_then(tag_ws(<<"[">>, pos), LAMBDA paren_l :
    and_then(lv_names(paren_l.rest), LAMBDA names :
    and_then(tag_ws(<<"]">>, names.rest), LAMBDA paren_r :
    IF names.val = <<>>
    THEN PErr("LVTupleNoNames", paren_r.rest)
    ELSE POk(paren_r.rest,
             LVTupleNode(names.val, StrRange(paren_l.val.start, paren_r.val.end))))))

assign_lv_names(pos) ==
    or_else(and_then(varname_ws(pos),
                     LAMBDA name : POk(name.rest, LVTupleNode(<<name.val>>, name.val.range))),
       LAMBDA e1 :
    rettupledef(pos))

\* blanks up to the end of the line
statement_end(pos) ==
    IF skip_ws(pos) > Len(text) THEN POk(Len(text) + 1, text_range(pos, Len(text) + 1))
    ELSE PErr("StatementEnd", skip_ws(pos))

\* terminated(exp, statement_end); the if and for alternatives need further
\* lines, which a one-line text does not have
exp_with_indent(pos) ==
    and_then(exp(pos), LAMBDA e :
    and_then(statement_end(e.rest), LAMBDA end : POk(end.rest, e.val)))

\* name(s), `=`, value: the tail every alternative of assign_with_indent shares
assign_tail(pos, start, var, var_type) ==
    and_then(assign_lv_names(pos), LAMBDA names :
    and_then(tag_ws(<<"=">>, names.rest), LAMBDA eq :
    and_then(exp_with_indent(eq.rest), LAMBDA val :
    POk(val.rest,
        Assignment(names.val.names, val.val, var, var_type,
                   StrRange(IF start = None THEN names.val.range.start ELSE start.val,
                            val.val.range.end))))))

\* the four alternatives in the order of the alt(): var type, var, type, plain
assign_with_indent(pos) ==
    or_else(and_then(tag_text(<<"v", "a", "r">>, pos), LAMBDA var :
            and_then(datatype(skip_ws(var.rest)), LAMBDA data_type :
            assign_tail(data_type.rest, Some(var.val.start), TRUE,
                        Some(SubSeq(text, skip_ws(var.rest), data_type.rest - 1))))),
       LAMBDA e1 :
    or_else(and_then(tag_text(<<"v", "a", "r">>, pos), LAMBDA var :
            assign_tail(var.rest, Some(var.val.start), TRUE, None)),
       LAMBDA e2 :
    or_else(and_then(datatype(pos), LAMBDA data_type :
            assign_tail(data_type.rest, Some(data_type.val.start), FALSE,
                        Some(SubSeq(text, pos, data_type.rest - 1)))),
       LAMBDA e3 :
    assign_tail(pos, None, FALSE, None))))

FunctionDef(name, params, body, range) ==
    [node |-> "FunctionDef", name |-> name, params |-> params, body |-> body,
     range |-> range]

\* a definition on one line, `f(x, y) => exp`: the body is the second
\* alternative, a block of the expression alone; the first one needs the
\* lines of an indented block after the arrow
function_def_with_indent(pos) ==
    and_then(varname(pos), LAMBDA name :
    and_then(tag_ws(<<"(">>, name.rest), LAMBDA l :
    and_then(lv_names(l.rest), LAMBDA params :
    and_then(tag_ws(<<")">>, params.rest), LAMBDA r :
    and_then(tag_ws(<<"=", ">">>, r.rest), LAMBDA arrow :
    and_then(exp(arrow.rest), LAMBDA e :
    and_then(statement_end(e.rest), LAMBDA end :
    POk(end.rest,
        FunctionDef(name.val, params.val, Block(<<>>, Some(e.val), e.val.range),
                    StrRange(name.val.range.start, e.val.range.end))))))))))

MaxTextLen == 9

\* the type keywords
data_types ==
    {<<"f", "l", "o", "a", "t">>, <<"i", "n", "t">>, <<"b", "o", "o", "l">>,
     <<"c", "o", "l", "o", "r">>, <<"s", "t", "r", "i", "n", "g">>}

\* what may come before the pattern of a declaration
DeclForms == [var : BOOLEAN, var_type : {None} \cup {Some(t) : t \in data_types}]

\* `[var] [type] x = b`
decl_text(form, x) ==
    (IF form.var THEN <<"v", "a", "r", " ">> ELSE <<>>)
        \o (IF form.var_type # None THEN form.var_type.val \o <<" ">> ELSE <<>>)
        \o x \o <<" ", "=", " ", "b">>

DeclTexts ==
    {decl_text(form, x) :
        form \in DeclForms, x \in PlainIdentifiers \cup ReservedIdentifiers}

\* member chains, calls and index calls
PostfixTexts ==
    {<<"a", ".", "b", "(", "x", ")">>,
     <<"a", ".", "b", "[", "k", "]">>,
     <<"(", "a", ")", "[", "k", "]">>,
     <<"a", "(", "x", ")">>,
     <<"a", "[", "k", "]">>,
     <<"a", ".", "b">>,
     <<"a", ".", "b", ".", "c">>,
     <<"a", ".", "b", ".", "c", "(", "x", ")">>,
     <<"a", "(", "x", ",", " ", "y", ")">>,
     <<"a", "(", "x", ",", " ", "k", " ", "=", " ", "y", ")">>,
     <<"a", "(", ")">>}

\* ternaries with blanks, brackets and operators
ListedExpTexts ==
    {<<"a", " ", "?", " ", "b", " ", ":", " ", "c">>,
     <<"a", " ", "?", " ", "b", " ", ":", " ", "c", " ", "?", " ", "d", " ", ":", " ", "e">>,
     <<"a", " ", "?", " ", "b", " ", "?", " ", "c", " ", ":", " ", "d", " ", ":", " ", "e">>,
     <<"(", "a", " ", "?", " ", "b", " ", ":", " ", "c", ")", " ", "?", " ", "d", " ", ":", " ", "e">>,
     <<"a", " ", "+", " ", "b", " ", "?", " ", "c", " ", ":", " ", "d">>,
     <<"-", "a", " ", "?", " ", "b", " ", ":", " ", "c">>,
     <<"a", " ", "?", " ", "-", "b", " ", ":", " ", "c", " ", "+", " ", "d">>,
     <<"-", " ", "-", "a">>,
     <<"-", "a", " ", "+", " ", "-", "b">>,
     <<"a", " ", "?", " ", "(", "b", " ", "?", " ", "c", " ", ":", " ", "d", ")", " ", ":", " ", "e">>,
     <<"(", " ", "a", " ", "?", " ", "b", " ", ":", " ", "c", " ", ")", " ", "?", " ", "d", " ", ":", " ", "e">>,
     <<"[", "a", ",", " ", "b", " ", "?", " ", "c", " ", ":", " ", "d", "]">>,
     <<"f", "l", "o", "a", "t", "(", "a", " ", "?", " ", "b", " ", ":", " ", "c", ")">>,
     <<"a", " ", "?", " ", "b", " ", ":", " ", "c", " ", "+", " ", "d", " ", "?", " ", "e", " ", ":", " ", "f">>,
     <<"n", "a", " ", "?", " ", "t", "r", "u", "e", " ", ":", " ", "f", "a", "l", "s", "e">>,
     <<"1", " ", "?", " ", "2", " ", ":", " ", "3">>}

\* declarations with operators and function definitions
StatementTexts ==
    {<<"x", " ", "=", " ", "-", "a", " ", "+", " ", "b">>,
     <<"x", " ", "=", " ", "-", " ", "-", "a">>,
     <<"[", "x", ",", " ", "y", "]", " ", "=", " ", "f", "(", "a", ")">>,
     <<"x", " ", "=", " ", "(", "a", ")", " ", "?", " ", "b", " ", ":", " ", "(", "c", ")">>,
     <<"v", "a", "r", " ", "x", " ", "=", " ", "-", "(", "a", " ", "+", " ", "b", ")">>,
     <<"f", "l", "o", "a", "t", " ", "x", " ", "=", " ", "a", "[", "1", "]">>,
     <<"f", "(", "x", ")", " ", "=", ">", " ", "a">>,
     <<"f", "(", "x", ",", " ", "y", ")", " ", "=", ">", " ", "-", "a", " ", "+", " ", "b">>,
     <<"f", "(", ")", " ", "=", ">", " ", "a", " ", "?", " ", "b", " ", ":", " ", "c">>,
     <<"f", "(", "x", ")", " ", "=", ">", " ", "(", "a", ")">>,
     <<"f", "(", "x", ")", " ", "=", ">">>,
     <<"f", "(", "x", ")", " ", "=", ">", " ", "a", " ", "b">>}

\* the characters the ternaries of up to MaxTextLen characters are made of
TernaryChars == {"a", "?", ":"}

\* argument lists of up to MaxArgs arguments, each positional or named, as
\* they stand in a call: before its closing bracket
MaxArgs == 4
ArgKinds == {"pos", "named"}
ArgValues == <<"a", "b", "c", "d", "e", "f">>
ArgNames == <<"k", "l", "m", "n", "o", "p">>

\* the i-th argument: `a` or `k = a`
arg_text(kind, i) ==
    IF kind = "named" THEN <<ArgNames[i], " ", "=", " ", ArgValues[i]>>
    ELSE <<ArgValues[i]>>

RECURSIVE arg_list_text(_, _)
\* the first n arguments, separated by ", "
arg_list_text(kinds, n) ==
    IF n = 0 THEN <<>>
    ELSE IF n = 1 THEN arg_text(kinds[1], 1)
    ELSE arg_list_text(kinds, n - 1) \o <<",", " ">> \o arg_text(kinds[n], n)

ListedTexts ==
    ReservedIdentifiers \cup PlainIdentifiers \cup MalformedTexts \cup DeclTexts
        \cup PostfixTexts \cup ListedExpTexts \cup StatementTexts

TextInit ==
    /\ \/ text \in ListedTexts
       \/ \E n \in 1..MaxTextLen : \E s \in [1..n -> TernaryChars] :
             text = [i \in 1..n |-> s[i]]
       \/ \E n \in 0..MaxArgs : \E kinds \in [1..n -> ArgKinds] :
             text = arg_list_text(kinds, n) \o <<")">>
    /\ out = None
    /\ ty1 = Simple("Na")
    /\ ty2 = Simple("Na")
    /\ call = "none"
    /\ result = None
    /\ row = 0
    /\ steppers = <<>>
    /\ last = None
    /\ length = 1
    /\ close = [current |-> None, history |-> <<>>]
    /\ m = [current |-> None, history |-> <<>>]
    /\ reads = {}
    /\ subctx = <<>>
    /\ ite = [current |-> None, history |-> <<>>]
    /\ taken = "none"
    /\ computed = <<>>
    /\ status = "ok"
    /\ fed = <<>>
    /\ input = <<>>
    /\ ast = None

ParseVarname ==
    /\ out = None
    /\ out' = Some([parser |-> "varname", res |-> varname(1)])
    /\ UNCHANGED <<text, typeVars, runVars, parseVars, stepVars>>

ParseExp2 ==
    /\ out = None
    /\ out' = Some([parser |-> "exp2", res |-> exp2(1)])
    /\ UNCHANGED <<text, typeVars, runVars, parseVars, stepVars>>

ParseExp ==
    /\ out = None
    /\ out' = Some([parser |-> "exp", res |-> exp(1)])
    /\ UNCHANGED <<text, typeVars, runVars, parseVars, stepVars>>

\* statement_with_indent(0) on a declaration: assign_with_indent(0)
ParseAssign ==
    /\ out = None
    /\ out' = Some([parser |-> "assign_with_indent", res |-> assign_with_indent(1)])
    /\ UNCHANGED <<text, typeVars, runVars, parseVars, stepVars>>

\* statement_with_indent(0) on a definition: function_def_with_indent(0)
ParseFunctionDef ==
    /\ out = None
    /\ out' = Some([parser |-> "function_def_with_indent",
                    res |-> function_def_with_indent(1)])
    /\ UNCHANGED <<text, typeVars, runVars, parseVars, stepVars>>

\* the argument list between the brackets of a call
ParseFuncCallArgs ==
    /\ out = None
    /\ out' = Some([parser |-> "func_call_args", res |-> func_call_args(1)])
    /\ UNCHANGED <<text, typeVars, runVars, parseVars, stepVars>>

TextNext ==
    \/ ParseVarname
    \/ ParseExp2
    \/ ParseExp
    \/ ParseAssign
    \/ ParseFunctionDef
    \/ ParseFuncCallArgs

TextSpec == TextInit /\ [][TextNext]_vars

\* a source is either lines of statements or one line of text
SyntaxInit == ParseInit \/ TextInit

SyntaxNext ==
    \/ input # <<>> /\ ParseNext
    \/ input = <<>> /\ TextNext

SyntaxSpec == SyntaxInit /\ [][SyntaxNext]_vars

(***************************************************************************)
(* Properties of the evaluator.                                            *)
(***************************************************************************)

\* C1: a read of a series at offset k during row r returns the value the
\* series had as its current value at row r-k when r >= k and Na when k > r,
\* and it always returns a value: no unwrap of a read fails.  The reads are
\* those of sum_func on close during the last row run, row - 1.
C1_SeriesIndexing ==
    /\ status = "ok"
    /\ \A rd \in reads :
          /\ rd.res.ok
          /\ rd.res.val = IF rd.k <= row - 1 THEN fed[row - rd.k] ELSE None

C1_Witness ==
    /\ row = 2
    /\ \E rd \in reads : rd.k = 1 /\ rd.res.ok /\ rd.res.val # None
    /\ \E rd \in reads : rd.k = 2 /\ rd.res.ok /\ rd.res.val = None

\* C2: after n rows a series slot assigned once per row holds exactly n
\* entries, entry i being the value computed at row i; the history grows by
\* one entry per row and earlier entries are never rewritten.
C2_SlotHistory ==
    /\ [](/\ Len(m.history) = row
          /\ m.history = computed
          /\ Len(ite.history) = row)
    /\ [][/\ Len(m'.history) \in {Len(m.history), Len(m.history) + 1}
          /\ \A i \in 1..Len(m.history) : m'.history[i] = m.history[i]
          /\ \A i \in 1..Len(ite.history) : ite'.history[i] = ite.history[i]]_vars

C2_Witness ==
    /\ row = 3
    /\ Len(m.history) = 3
    /\ m.history[1] = None
    /\ m.history[3] # None

\* C3: on every row on which the if is reached both branch sub-contexts are
\* entered, so the series local to each branch, selected or not, has gained
\* exactly one entry per row; the value of the if is the selected branch's
\* yield.
C3_BothBranchesAdvance ==
    row >= 1 =>
        /\ \A c \in {then_ctxid, else_ctxid} :
              /\ c \in DOMAIN subctx
              /\ Len(subctx[c].s.history) = row
        /\ ite.history[row] =
              IF taken = "then" THEN subctx[then_ctxid].s.history[row]
              ELSE subctx[else_ctxid].s.history[row]

C3_Witness ==
    /\ row = 1
    /\ taken = "then"
    /\ else_ctxid \in DOMAIN subctx
    /\ Len(subctx[else_ctxid].s.history) = 1
    /\ ite.history[1] # subctx[else_ctxid].s.history[1]

(***************************************************************************)
(* Properties of the type lattice and of overload selection.               *)
(***************************************************************************)

\* C4: overload selection picks the lowest-index signature every argument
\* converts to: rsi(Series Float, Simple Int) selects the (Series Float,
\* Simple Int) signature at index 0 although the second signature accepts it
\* too, rsi(Series Float, Series Float) selects the second signature, and
\* cos(Simple Int) selects the Simple Float signature and returns a scalar.
C4_FirstMatchSelected ==
    /\ (call \in {"rsi", "cos", "hma"} /\ result # None) =>
          LET sigs == CASE call = "rsi" -> rsi_func_type
                        [] call = "cos" -> cos_func_type
                        [] OTHER -> hma_func_type
              args == IF call = "cos" THEN <<ty1>> ELSE <<ty1, ty2>>
          IN /\ \A i \in 1..Len(args) : implicity_convert(args[i], result.val.sig.params[i])
             /\ \A j \in 1..result.val.index :
                   \E i \in 1..Len(args) : ~implicity_convert(args[i], sigs[j].params[i])
    /\ (call = "rsi" /\ ty1 = Series("Float") /\ ty2 = Simple("Int")) =>
          /\ result # None
          /\ result.val.index = 0
          /\ result.val.sig.params = <<Series("Float"), Simple("Int")>>
          /\ implicity_convert(ty2, Series("Float"))
    /\ (call = "rsi" /\ ty1 = Series("Float") /\ ty2 = Series("Float")) =>
          /\ result # None
          /\ result.val.index = 1
          /\ result.val.sig.params = <<Series("Float"), Series("Float")>>
    /\ (call = "cos" /\ ty1 = Simple("Int")) =>
          /\ result # None
          /\ result.val.sig.params = <<Simple("Float")>>
          /\ result.val.sig.ret = Simple("Float")

C4_Witness ==
    /\ call = "rsi"
    /\ ty1 = Series("Float")
    /\ ty2 = Simple("Int")
    /\ result # None
    /\ result.val.index = 0

\* T is an upper bound of T1 and T2 / the least one, under implicity_convert
IsUpperBound(c, t1, t2) == implicity_convert(t1, c) /\ implicity_convert(t2, c)
IsLub(c, t1, t2) ==
    /\ IsUpperBound(c, t1, t2)
    /\ \A u \in SyntaxType : IsUpperBound(u, t1, t2) => implicity_convert(c, u)

\* C5: common_type is the least upper bound under implicit conversion: a
\* result Some(C) is an upper bound of both operands that converts to every
\* other upper bound, and the result is None exactly when no least upper
\* bound exists.
C5_CommonTypeIsLub ==
    call = "common_type" =>
        /\ result # None => IsLub(result.val, ty1, ty2)
        /\ result = None <=> ~(\E c \in SyntaxType : IsLub(c, ty1, ty2))

\* C6: implicit conversion is one-way: two distinct types never convert to
\* each other, no Float type converts to an Int type, and no Int or Float
\* type converts to a Na type.
C6_OneWay ==
    call = "implicity_convert" =>
        /\ (result.val /\ ty1 # ty2) => ~implicity_convert(ty2, ty1)
        /\ (ty1.kind = "Float" /\ ty2.kind = "Int") => ~result.val
        /\ (ty1.kind \in {"Int", "Float"} /\ ty2.kind = "Na") => ~result.val

C6_Witness ==
    /\ call = "implicity_convert"
    /\ ty1 = Simple("Int")
    /\ ty2 = Series("Float")
    /\ result.val

\* C7: Na converts everywhere it is allowed to: Simple(Na) to every Simple(k)
\* and every Series(k), Series(Na) to every Series(k).
C7_NaConverts ==
    call = "implicity_convert" =>
        /\ ty1 = Simple("Na") => result.val
        /\ (ty1 = Series("Na") /\ ty2.form = "Series") => result.val

C7_Witness ==
    /\ call = "implicity_convert"
    /\ ty1 = Series("Na")
    /\ ty2 = Series("String")
    /\ result.val

\* C8: series lifting is monotone: when Simple(k1) converts to Simple(k2),
\* Series(k1) converts to Series(k2).
C8_LiftMonotone ==
    (/\ call = "implicity_convert"
     /\ ty1.form = "Simple"
     /\ ty2.form = "Simple"
     /\ result.val) => implicity_convert(Series(ty1.kind), Series(ty2.kind))

C8_Witness ==
    /\ call = "implicity_convert"
    /\ ty1 = Simple("Float")
    /\ ty2 = Simple("Bool")
    /\ result.val

\* C9: similar_type is defined exactly when the two kinds are equal or are
\* Int and Float in either order; its kind is the shared kind, or Float for
\* the mixed pair; it is Series when an operand is Series and Simple only
\* when both are Simple; for every other pair it is None.
C9_SimilarType ==
    call = "similar_type" =>
        LET k1 == ty1.kind
            k2 == ty2.kind
            defined == k1 = k2 \/ {k1, k2} = {"Int", "Float"}
            kind == IF k1 = k2 THEN k1 ELSE "Float"
            form == IF ty1.form = "Series" \/ ty2.form = "Series" THEN "Series" ELSE "Simple"
        IN /\ defined <=> result # None
           /\ defined => result = Some([form |-> form, kind |-> kind])

C9_Witness ==
    /\ call = "similar_type"
    /\ ty1 = Simple("Int")
    /\ ty2 = Series("Float")
    /\ result = Some(Series("Float"))

\* C28: implicit conversion is transitive: for all Simple and Series types
\* T, U, V, when T converts to U and U converts to V, T converts to V.
C28_Transitive ==
    (call = "implicity_convert" /\ result.val) =>
        \A dest \in SyntaxType :
            implicity_convert(ty2, dest) => implicity_convert(ty1, dest)

C28_Witness ==
    /\ call = "implicity_convert"
    /\ ty1 = Simple("Int")
    /\ ty2 = Simple("Float")
    /\ result.val
    /\ implicity_convert(ty2, Series("Bool"))
    /\ implicity_convert(ty1, Series("Bool"))

\* C29: implicit conversion never drops series-ness and lifts only Na, Int
\* and Float: no Series type converts to a Simple type, a Simple type
\* converts to a Series type only when its kind is Na, Int or Float, and a
\* Simple Bool, Color or String converts to nothing but itself.
C29_SeriesnessKept ==
    call = "implicity_convert" =>
        /\ (ty1.form = "Series" /\ ty2.form = "Simple") => ~result.val
        /\ (ty1.form = "Simple" /\ ty2.form = "Series" /\ result.val) =>
              ty1.kind \in {"Na", "Int", "Float"}
        /\ (ty1 \in {Simple("Bool"), Simple("Color"), Simple("String")} /\ result.val) =>
              ty2 = ty1

C29_Witness ==
    /\ call = "implicity_convert"
    /\ ty1 = Simple("Bool")
    /\ ty2 = simple_to_series(ty1)
    /\ ~result.val

(***************************************************************************)
(* Properties of the parser.                                               *)
(***************************************************************************)
RECURSIVE ites_of_block(_)
RECURSIVE last_line(_)

\* the if nodes of a statement or expression node, nested ones included
ites_of_node(n) ==
    CASE n.node = "Ite" ->
            {n} \cup ites_of_block(n.then_blk)
                \cup (IF n.else_blk = None THEN {} ELSE ites_of_block(n.else_blk.val))
      [] n.node = "ForRange" -> ites_of_block(n.do_blk)
      [] OTHER -> {}

ites_of_block(blk) ==
    UNION ({ites_of_node(blk.stmts[i]) : i \in DOMAIN blk.stmts}
           \cup (IF blk.ret_stmt = None THEN {} ELSE {ites_of_node(blk.ret_stmt.val)}))

\* the lines the members of a block start on, and the first and last line
\* a block covers
member_lines(blk) ==
    {blk.stmts[i].line : i \in DOMAIN blk.stmts}
        \cup (IF blk.ret_stmt = None THEN {} ELSE {blk.ret_stmt.val.line})

first_line(blk) ==
    CHOOSE l \in member_lines(blk) : \A k \in member_lines(blk) : l <= k

last_member(blk) ==
    IF blk.ret_stmt # None THEN blk.ret_stmt.val ELSE blk.stmts[Len(blk.stmts)]

last_line(blk) ==
    LET n == last_member(blk) IN
    CASE n.node = "Ite" ->
            IF n.else_blk = None THEN last_line(n.then_blk) ELSE last_line(n.else_blk.val)
      [] n.node = "ForRange" -> last_line(n.do_blk)
      [] OTHER -> n.line

parsed_ites ==
    IF ast = None \/ ~ast.val.res.ok THEN {}
    ELSE IF ast.val.entry = "block" THEN ites_of_block(ast.val.res.val)
    ELSE ites_of_node(ast.val.res.val)

\* "if a / if b / c / else / d" of if_then_else_exp_test, the else as deep
\* as the inner if
nested_if_source ==
    <<[ind |-> 0, kind |-> "if"], [ind |-> 1, kind |-> "if"], [ind |-> 2, kind |-> "exp"],
      [ind |-> 1, kind |-> "else"], [ind |-> 2, kind |-> "exp"]>>

nested_if_expected ==
    IfThenElse(1, VarName(1, 3),
        Block(<<>>,
              Some(IfThenElse(2, VarName(2, 3),
                  Block(<<>>, Some(VarName(3, 0)), from_start(1, Position(2, 8))),
                  Some(Block(<<>>, Some(VarName(5, 0)), from_start(1, Position(4, 8)))),
                  StrRange(Position(1, 4), Position(4, 9)))),
              StrRange(Position(1, 4), Position(4, 9))),
        None,
        StrRange(Position(0, 0), Position(4, 9)))

\* C10: indentation decides which if an else belongs to.  For every if in a
\* parsed tree, with d the depth of its line: the members of its then-block
\* and of its else-block all sit at depth d + 1; an else-block is there only
\* when the line right after the then-block is an else indented by exactly
\* d units, and is there whenever that line is such an else followed by a
\* one-line statement at depth d + 1.  On the nested source of the parser's
\* test the else at the inner if's depth becomes the inner if's else and the
\* outer if has none.
C10_ElseByIndentation ==
    /\ \A n \in parsed_ites :
          LET d == input[n.line].ind
              e == last_line(n.then_blk) + 1
          IN /\ \A l \in member_lines(n.then_blk) : input[l].ind = d + 1
             /\ n.else_blk # None =>
                   /\ \A l \in member_lines(n.else_blk.val) : input[l].ind = d + 1
                   /\ e = first_line(n.else_blk.val) - 1
                   /\ input[e].kind = "else"
                   /\ input[e].ind = d
             /\ ( /\ e + 1 <= Len(input)
                  /\ input[e] = [ind |-> d, kind |-> "else"]
                  /\ input[e + 1].ind = d + 1
                  /\ input[e + 1].kind \in {"exp", "break"} ) => n.else_blk # None
    /\ (input = nested_if_source /\ ast # None /\ ast.val.entry = "if_then_else_exp")
          => ast.val.res = POk(6, nested_if_expected)

\* the nested source has been parsed: the inner if at depth 1 took the else
\* at depth 1, the outer if at depth 0 has no else-block
C10_Witness ==
    /\ input = nested_if_source
    /\ ast # None
    /\ ast.val.entry = "if_then_else_exp"
    /\ ast.val.res.ok
    /\ ast.val.res.val.else_blk = None
    /\ ast.val.res.val.then_blk.ret_stmt.val.node = "Ite"
    /\ ast.val.res.val.then_blk.ret_stmt.val.else_blk # None

RECURSIVE is_promotion(_, _)

\* `after` is `before` with its last statement, when that is an if or a for
\* and there is no trailing expression, moved to the trailing expression,
\* the blocks of the moved statement promoted the same way; any other block
\* is unchanged
is_promotion(before, after) ==
    IF \/ before.ret_stmt # None
       \/ before.stmts = <<>>
       \/ before.stmts[Len(before.stmts)].node \notin {"Ite", "ForRange"}
    THEN after = before
    ELSE LET s == before.stmts[Len(before.stmts)] IN
         /\ after.stmts = SubSeq(before.stmts, 1, Len(before.stmts) - 1)
         /\ after.range = before.range
         /\ after.ret_stmt # None
         /\ LET t == after.ret_stmt.val IN
            /\ t.node = s.node
            /\ s.node = "Ite" =>
                  /\ t = [s EXCEPT !.then_blk = t.then_blk, !.else_blk = t.else_blk]
                  /\ is_promotion(s.then_blk, t.then_blk)
                  /\ (s.else_blk = None) = (t.else_blk = None)
                  /\ s.else_blk # None => is_promotion(s.else_blk.val, t.else_blk.val)
            /\ s.node = "ForRange" =>
                  /\ t = [s EXCEPT !.do_blk = t.do_blk]
                  /\ is_promotion(s.do_blk, t.do_blk)

\* "for i = 1 to 2" three deep around "i", of for_range_exp_test
nested_for_source ==
    <<[ind |-> 0, kind |-> "for"], [ind |-> 1, kind |-> "for"],
      [ind |-> 2, kind |-> "for"], [ind |-> 3, kind |-> "exp"]>>

for_header(line, do_blk, range) ==
    ForRange(line, VarName(line, 4), VarName(line, 8), VarName(line, 13), do_blk, range)

nested_for_expected ==
    for_header(1,
        Block(<<>>,
              Some(for_header(2,
                  Block(<<>>,
                        Some(for_header(3,
                            Block(<<>>, Some(VarName(4, 0)),
                                  from_start(1, Position(3, 12))),
                            StrRange(Position(2, 8), Position(3, 13)))),
                        StrRange(Position(2, 8), Position(3, 13))),
                  StrRange(Position(1, 4), Position(3, 13)))),
              StrRange(Position(1, 4), Position(3, 13))),
        StrRange(Position(0, 0), Position(3, 13)))

\* C11: block-return promotion.  The blocks if_then_else_exp and
\* for_range_exp return are the promotion of the blocks the same text gives
\* without promotion, transfer_block_ret of a parsed top-level block is its
\* promotion, and the three nested for loops of for_range_exp_test come out
\* as the tree the test expects.
C11_BlockRetPromotion ==
    /\ (ast # None /\ ast.val.res.ok /\ ast.val.entry = "if_then_else_exp") =>
          LET raw == if_then_else(0, "block_with_indent", 1, 0).val
              got == ast.val.res.val
          IN /\ is_promotion(raw.then_blk, got.then_blk)
             /\ (raw.else_blk = None) = (got.else_blk = None)
             /\ raw.else_blk # None => is_promotion(raw.else_blk.val, got.else_blk.val)
    /\ (ast # None /\ ast.val.res.ok /\ ast.val.entry = "for_range_exp") =>
          is_promotion(for_range(0, "block_with_indent", 1, 0).val.do_blk,
                       ast.val.res.val.do_blk)
    /\ (ast # None /\ ast.val.res.ok /\ ast.val.entry = "block") =>
          is_promotion(ast.val.res.val, transfer_block_ret(ast.val.res.val))
    /\ (input = nested_for_source /\ ast # None /\ ast.val.entry = "for_range_exp")
          => ast.val.res = POk(5, nested_for_expected)

\* the nested for loops have been parsed: each for that ended a block has
\* become that block's trailing expression, two levels deep
C11_Witness ==
    /\ input = nested_for_source
    /\ ast # None
    /\ ast.val.entry = "for_range_exp"
    /\ ast.val.res.ok
    /\ ast.val.res.val.do_blk.stmts = <<>>
    /\ ast.val.res.val.do_blk.ret_stmt.val.node = "ForRange"
    /\ ast.val.res.val.do_blk.ret_stmt.val.do_blk.stmts = <<>>
    /\ ast.val.res.val.do_blk.ret_stmt.val.do_blk.ret_stmt.val.node = "ForRange"

(***************************************************************************)
(* The identifier parser.                                                  *)
(***************************************************************************)

\* [A-Za-z_][A-Za-z0-9_]*
is_identifier(s) ==
    /\ Len(s) >= 1
    /\ s[1] \in Lower \cup {"_"}
    /\ \A i \in 2..Len(s) : s[i] \in Lower \cup Digit \cup {"_"}

\* varname has run on the text
varname_result == out.val.res
varname_ran == out # None /\ out.val.parser = "varname"

\* C14: on a text that is one identifier, varname fails with the reserved-
\* identifier error exactly when the identifier is one of and, or, not, break,
\* continue, else, if, true, false, for, while, return, na, var; every other
\* identifier, one that only starts with a reserved word included, is
\* returned whole with nothing left over.
C14_ReservedExactly ==
    (varname_ran /\ is_identifier(text)) =>
        IF text \in ReservedIdentifiers
        THEN ~varname_result.ok /\ varname_result.kind = "ReservedVarName"
        ELSE /\ varname_result.ok
             /\ varname_result.val.name = text
             /\ varname_result.rest = Len(text) + 1

\* C18: whatever the text, the empty one and one whose first character is a
\* digit, a symbol or a character of several bytes included, varname returns
\* a name with the rest of the input or an error value; it never panics.
C18_VarnameNeverPanics ==
    varname_ran => (varname_result.ok \/ failed(varname_result))

(***************************************************************************)
(* Literals and names in expression position.                              *)
(***************************************************************************)

exp2_result == out.val.res
exp2_ran == out # None /\ out.val.parser = "exp2"

\* the words exp2 tries with tag() before everything else
literal_words == {<<"n", "a">>, <<"t", "r", "u", "e">>, <<"f", "a", "l", "s", "e">>}

\* a name reference that takes the whole text
is_whole_name(res) ==
    /\ res.ok
    /\ res.val.node = "VarName"
    /\ res.val.name = text
    /\ res.rest = Len(text) + 1

\* C13: exp2 takes na, true and false for literals only as whole words: an
\* identifier that has one of them as a proper prefix (name, nav, trueness,
\* falsey) is returned as one name reference covering the whole identifier,
\* never as the literal with the rest of the identifier left unconsumed.
C13_LiteralsWholeWords ==
    (/\ exp2_ran
     /\ is_identifier(text)
     /\ text \notin ReservedIdentifiers
     /\ \E w \in literal_words : starts_with(text, 1, w))
        => is_whole_name(exp2_result)

(***************************************************************************)
(* Postfix forms.                                                          *)
(***************************************************************************)

\* a member chain or a parenthesised expression followed by a call or an index
ChainCallTexts ==
    {<<"a", ".", "b", "(", "x", ")">>,
     <<"a", ".", "b", "[", "k", "]">>,
     <<"(", "a", ")", "[", "k", "]">>,
     <<"a", ".", "b", ".", "c", "(", "x", ")">>}

\* one call or index call that takes the whole text
is_whole_call(res) ==
    /\ res.ok
    /\ res.val.node \in {"FuncCall", "RefCall"}
    /\ res.rest = Len(text) + 1

\* C15: in exp2 a member chain followed by call parentheses or an index
\* bracket (a.b(x), a.b[k]) and a parenthesised expression followed by an
\* index bracket ((a)[k]) are parsed as one function call or index call on
\* that callee and the whole text is consumed; the alternatives never stop
\* after the chain or the parenthesised expression.
C15_PostfixBindsToPrimary ==
    (exp2_ran /\ text \in ChainCallTexts) => is_whole_call(exp2_result)

(***************************************************************************)
(* The ternary.                                                            *)
(***************************************************************************)

exp_result == out.val.res
exp_ran == out # None /\ out.val.parser = "exp"

\* the expressions directly under a node
children(node) ==
    CASE node.node = "Tuple" -> node.items
      [] node.node = "TypeCast" -> <<node.exp>>
      [] node.node = "FuncCall" ->
            node.pos_args \o [i \in DOMAIN node.dict_args |-> node.dict_args[i][2]]
      [] node.node = "RefCall" -> <<node.name, node.arg>>
      [] node.node = "Condition" -> <<node.cond, node.exp1, node.exp2>>
      [] node.node = "UnOp" -> <<node.exp>>
      [] node.node = "BinOp" -> <<node.exp1, node.exp2>>
      [] OTHER -> <<>>

RECURSIVE conditions_of(_)
\* the Condition nodes of a tree
conditions_of(node) ==
    (IF node.node = "Condition" THEN {node} ELSE {})
        \cup UNION {conditions_of(children(node)[i]) : i \in DOMAIN children(node)}

\* the text of the range stands between brackets
parenthesised(range) ==
    /\ \E i \in 1..range.start.character :
          /\ text[i] = "("
          /\ \A j \in (i + 1)..range.start.character : text[j] = " "
    /\ \E i \in (range.end.character + 1)..Len(text) :
          /\ text[i] = ")"
          /\ \A j \in (range.end.character + 1)..(i - 1) : text[j] = " "

name_at(letter, from) == VarNameAt(<<letter>>, from, from + 1)

\* a ? b : c ? d : e
ternary_in_else ==
    <<"a", " ", "?", " ", "b", " ", ":", " ", "c", " ", "?", " ", "d", " ", ":", " ", "e">>
ternary_in_else_expected ==
    Condition(name_at("a", 1), name_at("b", 5),
              Condition(name_at("c", 9), name_at("d", 13), name_at("e", 17),
                        text_range(9, 18)),
              text_range(1, 18))

\* a ? b ? c : d : e
ternary_in_then ==
    <<"a", " ", "?", " ", "b", " ", "?", " ", "c", " ", ":", " ", "d", " ", ":", " ", "e">>
ternary_in_then_expected ==
    Condition(name_at("a", 1),
              Condition(name_at("b", 5), name_at("c", 9), name_at("d", 13),
                        text_range(5, 14)),
              name_at("e", 17),
              text_range(1, 18))

\* C16: the ternary is right-associative and its condition is an operator
\* expression: `a ? b : c ? d : e` is Condition(a, b, Condition(c, d, e)), a
\* ternary may stand without brackets in either arm, and the condition of a
\* Condition node is never a ternary that the text does not put in brackets.
C16_TernaryRightAssociative ==
    exp_ran =>
        /\ text = ternary_in_else =>
              exp_result = POk(Len(text) + 1, ternary_in_else_expected)
        /\ text = ternary_in_then =>
              exp_result = POk(Len(text) + 1, ternary_in_then_expected)
        /\ exp_result.ok =>
              \A c \in conditions_of(exp_result.val) :
                 c.cond.node = "Condition" => parenthesised(c.cond.range)

\* the nested ternary has been parsed
C16_Witness ==
    /\ exp_ran
    /\ text = ternary_in_else
    /\ exp_result.ok
    /\ exp_result.val.node = "Condition"
    /\ exp_result.val.exp2.node = "Condition"

(***************************************************************************)
(* Declarations.                                                           *)
(***************************************************************************)

assign_result == out.val.res
assign_ran == out # None /\ out.val.parser = "assign_with_indent"

\* the declaration of the one name x with the flag and type of the form
is_declaration(res, form, x) ==
    /\ res.ok
    /\ res.val.node = "Assignment"
    /\ Len(res.val.names) = 1
    /\ res.val.names[1].name = x
    /\ res.val.var = form.var
    /\ res.val.var_type = form.var_type

\* C12: in a declaration the var flag is true exactly when the statement
\* begins with the keyword var, and a declared type is there exactly when one
\* of float, int, bool, color, string stands before the pattern; so for every
\* valid identifier x, one that has var or a type keyword as a proper prefix
\* included (variable, interval, boolean), `x = e` is an Assignment with
\* names = [x], var = false and no declared type.
C12_VarFlagAndType ==
    assign_ran =>
        \A form \in DeclForms, x \in PlainIdentifiers :
            text = decl_text(form, x) => is_declaration(assign_result, form, x)

(***************************************************************************)
(* Source ranges.                                                          *)
(***************************************************************************)

\* Position's order: by line, then by character
position_le(p, q) ==
    p.line < q.line \/ (p.line = q.line /\ p.character <= q.character)

\* the range `outer` contains the range `inner`
range_contains(outer, inner) ==
    position_le(outer.start, inner.start) /\ position_le(inner.end, outer.end)

\* what stands directly under a block or a node
parts(n) ==
    IF "stmts" \in DOMAIN n
    THEN n.stmts \o (IF n.ret_stmt = None THEN <<>> ELSE <<n.ret_stmt.val>>)
    ELSE IF "node" \notin DOMAIN n THEN <<>>
    ELSE CASE n.node = "Ite" ->
                 <<n.cond, n.then_blk>>
                     \o (IF n.else_blk = None THEN <<>> ELSE <<n.else_blk.val>>)
           [] n.node = "ForRange" -> <<n.var, n.start, n.end, n.do_blk>>
           [] n.node = "Assignment" -> n.names \o <<n.val>>
           [] n.node = "FunctionDef" -> <<n.name>> \o n.params \o <<n.body>>
           [] n.node = "UnOp" -> n.ops \o <<n.exp>>
           [] OTHER -> children(n)

RECURSIVE ranges_nested(_)
\* every range of the tree contains the ranges directly under it
ranges_nested(n) ==
    \A i \in DOMAIN parts(n) :
        /\ range_contains(n.range, parts(n)[i].range)
        /\ ranges_nested(parts(n)[i])

\* C17: in every tree the parser returns, the range of a node contains the
\* range of each of its children: a Block its statements and trailing
\* expression, an IfThenElse its condition and both blocks, a ForRange its
\* variable, bounds and body, a FunctionDef its name, parameters and body, an
\* Assignment its names and value, a unary chain its operators and operand;
\* and so it is after the promotion of a block's last statement.
C17_RangeContainment ==
    /\ (ast # None /\ ast.val.res.ok) =>
          /\ ranges_nested(ast.val.res.val)
          /\ ast.val.entry = "block" => ranges_nested(transfer_block_ret(ast.val.res.val))
    /\ (out # None /\ out.val.parser # "varname" /\ out.val.res.ok) =>
          ranges_nested(out.val.res.val)

\* an if with an else-block has been parsed and its then-block promoted
C17_Witness ==
    /\ ast # None
    /\ ast.val.entry = "if_then_else_exp"
    /\ ast.val.res.ok
    /\ ast.val.res.val.else_blk # None
    /\ ast.val.res.val.then_blk.ret_stmt # None
    /\ ast.val.res.val.then_blk.ret_stmt.val.node = "Ite"

(***************************************************************************)
(* Blocks are never empty.                                                 *)
(***************************************************************************)

\* the blocks of a tree, the tree's own block first
RECURSIVE blocks_of(_)
blocks_of(n) ==
    (IF "stmts" \in DOMAIN n THEN {n} ELSE {})
        \cup UNION {blocks_of(parts(n)[i]) : i \in DOMAIN parts(n)}

\* what block_with_indent(d) makes of the text from line p on
block_outcome_ok(d, p) ==
    LET res == block_with_indent(d, p) IN
    /\ res.ok => (res.val.stmts # <<>> \/ res.val.ret_stmt # None)
    /\ ~res.ok => (res.kind = "BlockNoStmts" /\ res.at = p)
    /\ ~res.ok <=> (~statement_with_indent(d, p).ok /\ ~eat_statement(d, "exp", p))

\* C19: block_with_indent at depth d never returns an empty block: it fails
\* with the block-empty error, which refers to the position the block
\* started at, or returns a Block with at least one statement or a trailing
\* expression; it fails exactly when neither a statement nor a trailing
\* expression parses at depth d from the start of its input.
C19_BlockNeverEmpty ==
    (ast # None /\ ast.val.entry = "block") =>
        /\ ast.val.res = block_with_indent(0, 1)
        /\ \A d \in 0..MaxIndent, p \in 1..(Len(input) + 1) : block_outcome_ok(d, p)
        /\ ast.val.res.ok =>
              \A b \in blocks_of(ast.val.res.val) : b.stmts # <<>> \/ b.ret_stmt # None

\* a text on which the block parser has failed: it starts with an else
C19_Witness ==
    /\ ast # None
    /\ ast.val.entry = "block"
    /\ ~ast.val.res.ok
    /\ ast.val.res.kind = "BlockNoStmts"
    /\ ast.val.res.at = 1
    /\ input[1].kind = "else"

(***************************************************************************)
(* sum.                                                                    *)
(***************************************************************************)

RECURSIVE window_sum(_, _, _)
\* the sum of the values fed at rows from..to (all present)
window_sum(values, from, to) ==
    IF from > to THEN 0 ELSE values[from].val + window_sum(values, from + 1, to)

\* C20: sum(source, length) with length >= 1 is at row r the sum of the
\* length most recent values of source, rows r-length+1 .. r, when the
\* window is full (r >= length-1) and all of them are present, and Na when
\* the window is not yet full or holds an Na; for close = [12, 6] and
\* length 2 the series of the result is [Na, 18].  Rows are counted from 0,
\* entry r + 1 of `computed` and `fed` belongs to row r.
C20_SumWindow ==
    /\ status = "ok"
    /\ \A r \in 0..(row - 1) :
          computed[r + 1] =
             IF r >= length - 1 /\ \A k \in (r - length + 1)..r : fed[k + 1] # None
             THEN Some(window_sum(fed, r - length + 2, r + 1))
             ELSE None
    /\ (length = 2 /\ fed = <<Some(12), Some(6)>>) => m.history = <<None, Some(18)>>

\* sum_test: close = [12, 6], length 2
C20_Witness ==
    /\ length = 2
    /\ row = 2
    /\ fed = <<Some(12), Some(6)>>
    /\ m.history = <<None, Some(18)>>

(***************************************************************************)
(* Promotion is idempotent and loses nothing.                              *)
(***************************************************************************)

\* statements plus trailing expression
member_count(blk) == Len(blk.stmts) + (IF blk.ret_stmt = None THEN 0 ELSE 1)

\* what transfer_block_ret makes of one block
promotion_keeps(blk) ==
    LET once == transfer_block_ret(blk) IN
    /\ blk.ret_stmt # None => once = blk
    /\ transfer_block_ret(once) = once
    /\ once.range = blk.range
    /\ member_count(once) = member_count(blk)
    /\ once.stmts = SubSeq(blk.stmts, 1, Len(once.stmts))
    /\ once.stmts # blk.stmts =>
          /\ Len(once.stmts) = Len(blk.stmts) - 1
          /\ once.ret_stmt # None
          /\ once.ret_stmt.val.node = blk.stmts[Len(blk.stmts)].node
          /\ once.ret_stmt.val.range = blk.stmts[Len(blk.stmts)].range

\* C30: block-return promotion is idempotent and loses nothing:
\* transfer_block_ret returns a block that has a trailing expression
\* unchanged, applying it twice gives what applying it once gives, and the
\* promoted block has the range and, in their order, the statements of the
\* original, the last one moved to the trailing-expression position, so that
\* statements plus trailing expression are as many as before.
C30_PromotionIdempotent ==
    (ast # None /\ ast.val.res.ok) =>
        \A blk \in blocks_of(ast.val.res.val) : promotion_keeps(blk)

\* a parsed block of several statements that ends with an if and is changed
\* by the promotion
C30_Witness ==
    /\ ast # None
    /\ ast.val.entry = "block"
    /\ ast.val.res.ok
    /\ ast.val.res.val.ret_stmt = None
    /\ Len(ast.val.res.val.stmts) >= 2
    /\ ast.val.res.val.stmts[Len(ast.val.res.val.stmts)].node = "Ite"
    /\ transfer_block_ret(ast.val.res.val) # ast.val.res.val

\* ---------------------------------------------------------------------
\* The arguments of a call
\* ---------------------------------------------------------------------

func_call_args_ran == out # None /\ out.val.parser = "func_call_args"

\* a positional argument stands after a named one
misplaced(kinds, n) ==
    \E i, j \in 1..n : i < j /\ kinds[i] = "named" /\ kinds[j] = "pos"

\* the places of the arguments of one kind, in source order
args_of(kinds, n, kind) ==
    SelectSeq([i \in 1..n |-> i], LAMBDA i : kinds[i] = kind)

\* the two lists hold the arguments of the text, each in source order
args_in_order(val, kinds, n) ==
    LET ps == args_of(kinds, n, "pos")
        ds == args_of(kinds, n, "named")
    IN /\ Len(val.pos_args) = Len(ps)
       /\ Len(val.dict_args) = Len(ds)
       /\ \A j \in 1..Len(ps) :
             /\ val.pos_args[j].node = "VarName"
             /\ val.pos_args[j].name = <<ArgValues[ps[j]]>>
       /\ \A j \in 1..Len(ds) :
             /\ val.dict_args[j][1].name = <<ArgNames[ds[j]]>>
             /\ val.dict_args[j][2].node = "VarName"
             /\ val.dict_args[j][2].name = <<ArgValues[ds[j]]>>

\* every positional argument ends before the first named one starts, and
\* each list follows the text
positionals_first(val) ==
    /\ \A i, j \in 1..Len(val.pos_args) :
          i < j => position_le(val.pos_args[i].range.end, val.pos_args[j].range.start)
    /\ \A i, j \in 1..Len(val.dict_args) :
          i < j => position_le(val.dict_args[i][2].range.end,
                               val.dict_args[j][1].range.start)
    /\ \A i \in 1..Len(val.pos_args), j \in 1..Len(val.dict_args) :
          position_le(val.pos_args[i].range.end, val.dict_args[j][1].range.start)

\* C24: func_call_args returns the positional and the named arguments each in
\* source order, rejects with InvalidFuncCallArgs every list in which a
\* positional argument stands after a named one, has in every accepted list
\* all positional arguments before all named ones, and yields two empty
\* lists for an empty argument list.
C24_PositionalBeforeNamed ==
    func_call_args_ran =>
        LET res == out.val.res IN
        /\ res.ok => positionals_first(res.val)
        /\ failed(res) => res.kind = "InvalidFuncCallArgs"
        /\ \A n \in 0..MaxArgs : \A kinds \in [1..n -> ArgKinds] :
              text = arg_list_text(kinds, n) \o <<")">> =>
                 IF misplaced(kinds, n)
                 THEN ~res.ok /\ res.kind = "InvalidFuncCallArgs"
                 ELSE /\ res.ok
                      /\ res.rest = Len(text)
                      /\ args_in_order(res.val, kinds, n)
        /\ text = <<")">> =>
              res.ok /\ res.rest = 1 /\ res.val.pos_args = <<>> /\ res.val.dict_args = <<>>

\* `a, l = b, c)` has been rejected
C24_Witness ==
    /\ func_call_args_ran
    /\ text = <<"a", ",", " ", "l", " ", "=", " ", "b", ",", " ", "c", ")">>
    /\ ~out.val.res.ok
    /\ out.val.res.kind = "InvalidFuncCallArgs"

(***************************************************************************)
(* Properties of the steppers                                              *)
(***************************************************************************)

\* the last operation was a step of the given overload
stepped_as(overload) ==
    last # None /\ last.val.op = "step" /\ last.val.overload = overload

\* C21: the int-length rsi stepper is a running recurrence on its own output:
\* what a step passes to rma_func as the previous average of the upward and
\* of the downward movement is the running average the step of the row
\* before computed, and Na on the first row.
C21_RunningRecurrence ==
    (stepped_as("int") /\ last.val.res.kind = "value" /\ length >= 1) =>
        last.val.passed = last.val.previous

\* 100 - 100 / (1 + x / y), Na when x or y is
rsi_of_ratio(x, y) ==
    IF x = None \/ y = None THEN None
    ELSE Some(f64_add(num(100),
                      f64_neg(f64_div(num(100), f64_add(num(1), f64_div(x.val, y.val))))))

\* C22: the (series, series) overload of rsi is memoryless: its result is
\* 100 - 100 / (1 + x/y) of the row's x and y whatever the rows before and
\* whatever prev_upward and prev_downward hold, it leaves these two fields
\* unchanged, it is 50 when x = y is present and not zero, and Na when x or y
\* is Na.
C22_SeriesOverloadMemoryless ==
    [][(last' # None /\ last'.val.op = "step" /\ last'.val.overload = "series") =>
          LET i == last'.val.inst
              x == close'.current
              y == last'.val.y
          IN /\ last'.val.res = returned_value(rsi_of_ratio(x, y))
             /\ state_of(steppers', i).val = state_of(steppers, i).val
             /\ (x # None /\ x = y /\ x # Some(num(0))) =>
                   last'.val.res.val = Some(num(50))
             /\ (x = None \/ y = None) => last'.val.res.val = None]_vars

\* a series step has returned 50 while the fields held the movements of an
\* int-length step
C22_Witness ==
    /\ stepped_as("series")
    /\ last.val.res = returned_value(Some(num(50)))
    /\ state_of(steppers, 1).val.prev_upward \notin {None, Some(num(0))}

\* the values of close fed so far, the current row's last
fed_values == IF row = 0 THEN <<>> ELSE Append(close.history, close.current)

\* the input of alma_test
alma_closes == <<Some(num(6)), Some(num(12)), Some(num(6)), Some(num(12))>>

\* C23: hma yields Na on every row inside its warm-up, that is while fewer
\* source values have been seen than its weighted averages need (length of
\* them); with length 2 and the rows 6, 12, 6, 12 it yields Na on each of the
\* four rows.
C23_NaInsideWarmUp ==
    (stepped_as("hma") /\ last.val.res.kind = "value") =>
        /\ row < length => last.val.res.val = None
        /\ (/\ length = 2
            /\ row <= Len(alma_closes)
            /\ fed_values = SubSeq(alma_closes, 1, row)
            /\ state_of(steppers, 1).returned = row) =>
              last.val.res.val = None

\* the fourth row of alma_test has been stepped
C23_Witness ==
    /\ stepped_as("hma")
    /\ length = 2
    /\ row = 4
    /\ fed_values = alma_closes
    /\ state_of(steppers, 1).returned = 4
    /\ last.val.res = returned_value(None)

\* the newest n entries of a vector, none when it is shorter
newest(h, n) == IF Len(h) < n THEN <<>> ELSE SubSeq(h, Len(h) - n + 1, Len(h))

\* C25: hma is the weighted average of the X series over a window of
\* round(sqrt(length)) entries: every step computes its output from the
\* round(sqrt(length)) entries of val_history pushed last, so the output is
\* not Na on a row at which these entries are all present.
C25_WindowOfNewest ==
    (stepped_as("hma") /\ last.val.res.kind = "value") =>
        LET window == newest(state_of(steppers, 1).val.val_history, round_sqrt(length)) IN
        (window # <<>> /\ \A k \in DOMAIN window : window[k] # None) =>
            last.val.res.val # None

\* C26: a step that returns an error leaves the stepper's state as it was:
\* val_history of an hma gains exactly one entry on a step that returns a
\* value and is unchanged by a step that fails (source missing, length below
\* 1, an error of the weighted averages), so its length is the number of the
\* steps that returned a value; prev_upward and prev_downward of an
\* int-length rsi change only on a step that returns a value.
C26_FailedStepKeepsState ==
    [][(last' # None /\ last'.val.op = "step") =>
          LET i == last'.val.inst
              before == state_of(steppers, i)
              after == state_of(steppers', i)
              res == last'.val.res
          IN /\ res.kind = "error" => after.val = before.val
             /\ (before.lib = "hma" /\ res.kind = "value") =>
                   /\ Len(after.val.val_history) = Len(before.val.val_history) + 1
                   /\ SubSeq(after.val.val_history, 1, Len(before.val.val_history))
                         = before.val.val_history
             /\ (before.lib = "hma" /\ res.kind # "panic") =>
                   Len(after.val.val_history) = after.returned
             /\ (before.lib = "hma" /\ (last'.val.args # "given" \/ length < 1)) =>
                   res.kind = "error"
             /\ (before.lib = "rsi" /\ after.val # before.val) => res.kind = "value"]_vars

\* a step of an hma with a history has failed on an error of the weighted
\* averages
C26_Witness ==
    /\ stepped_as("hma")
    /\ last.val.args = "fault"
    /\ last.val.res.kind = "error"
    /\ state_of(steppers, 1).returned >= 2
    /\ Len(state_of(steppers, 1).val.val_history) = state_of(steppers, 1).returned

\* every instance but i is as it was
others_unchanged(i) ==
    \A j \in DOMAIN steppers.box : j # i => state_of(steppers', j) = state_of(steppers, j)

\* C27: stepper instances share no state: the factory returns a stepper in
\* the empty initial state (val_history empty, prev_upward and prev_downward
\* Na) whatever the earlier instances have seen, a copy is in the state the
\* original is in at the moment of the copy, and a step on one instance
\* leaves every other one unchanged.
C27_InstancesShareNoState ==
    [][last' # None =>
          /\ last'.val.op = "create" =>
                /\ state_of(steppers', last'.val.inst).lib = "hma" =>
                      state_of(steppers', last'.val.inst).val.val_history = <<>>
                /\ state_of(steppers', last'.val.inst).lib = "rsi" =>
                      /\ state_of(steppers', last'.val.inst).val.prev_upward = None
                      /\ state_of(steppers', last'.val.inst).val.prev_downward = None
                /\ others_unchanged(last'.val.inst)
          /\ last'.val.op = "copy" =>
                /\ state_of(steppers', last'.val.inst) = state_of(steppers, last'.val.from)
                /\ others_unchanged(last'.val.inst)
          /\ last'.val.op = "step" => others_unchanged(last'.val.inst)]_vars

\* the original of a copy has been stepped on past the copy, which still
\* holds what it was given
C27_Witness ==
    /\ last # None
    /\ last.val.op = "step"
    /\ last.val.inst = 1
    /\ Len(steppers.box) = 2
    /\ steppers.made[2] = "copy"
    /\ state_of(steppers, 2).val # state_of(steppers, 1).val
    /\ state_of(steppers, 2).lib = "hma"
    /\ state_of(steppers, 2).val.val_history # <<>>
    /\ state_of(steppers, 2).at_row < state_of(steppers, 1).at_row

====
